---- MODULE Spec2Model ----
(***************************************************************************)
(* Model of image-tagger: the tile planner (internal/imagetiler), the      *)
(* concurrent inference fan-out / fan-in of cmd/tag (generateImageSummary, *)
(* generateImageTags) and the tag reducer (collectUniqueTags).             *)
(***************************************************************************)
EXTENDS Integers, Sequences, FiniteSets, TLC

(* ---------------------------- bounds ---------------------------------- *)
\* largest source width / height explored
MaxDim == 6
\* largest configured tile width / height explored
MaxCrop == 3
\* cap on the number of rectangles a sweep may append (a sweep whose step
\* floors to 0 never leaves its loop; the cap keeps the state space finite)
MaxSweep == (MaxDim + 1) * (MaxDim + 1)

Min(a, b) == IF a < b THEN a ELSE b
Max(a, b) == IF a > b THEN a ELSE b

\* the k-th smallest element of a finite set of numbers
Nth(S, k) == CHOOSE c \in S : Cardinality({d \in S : d < c}) = k - 1

VARIABLES
    \* ---- imagetiler.Options and the image being tiled
    Mode,            \* options.Mode
    Width,           \* options.Width
    Height,          \* options.Height
    MaxImagePixels,  \* options.MaxImagePixels
    srcWidth,        \* width of the decoded source image
    srcHeight,       \* height of the decoded source image
    newWidth,        \* resizeImage's local newWidth (0 until it is computed)
    newHeight,       \* resizeImage's local newHeight (0 until it is computed)
    imgWidth,        \* bounds.Dx() of img after resizeImage
    imgHeight,       \* bounds.Dy() of img after resizeImage
    tpc,             \* position inside MakeImageTiles / cropImage / main
    x,               \* inner loop variable of cropImage
    y,               \* outer loop variable of cropImage
    croppedImages,   \* rectangles appended by cropImage
    encoded,         \* number of tiles already encoded by MakeImageTiles
    images           \* value returned by MakeImageTiles (nil is the empty sequence)

tileVars == <<Mode, Width, Height, MaxImagePixels, srcWidth, srcHeight,
              newWidth, newHeight, imgWidth, imgHeight, tpc, x, y, croppedImages, encoded, images>>

VARIABLES
    \* ---- cmd/tag main, generateImageSummary, generateImageTags
    mpc,             \* position of the main goroutine
    panicked,        \* "" or the message of the runtime panic that ended the process
    summaryWg,       \* counter of wg in generateImageSummary
    summaries,       \* buffer of the results channel of generateImageSummary
    summariesClosed, \* close(results) was executed in generateImageSummary
    summaryTask,     \* the goroutine running sendVisionSummaryRequest
    summary,         \* value returned by generateImageSummary
    wg,              \* counter of wg in generateImageTags
    results,         \* buffer of the results channel of generateImageTags
    resultsClosed,   \* close(results) was executed in generateImageTags
    tagTask,         \* the goroutines running sendVisionTagsRequest, by tile index
    threshold,       \* confidence threshold used by collectUniqueTags
    tagMap,          \* tagMap of collectUniqueTags (set of entries, one per key)
    uniqueTags,      \* slice returned by collectUniqueTags
    artifact         \* ImageData records written by main (at most one)

fanVars == <<mpc, panicked, summaryWg, summaries, summariesClosed, summaryTask,
             summary, wg, results, resultsClosed, tagTask, threshold, tagMap,
             uniqueTags, artifact>>

VARIABLES
    \* ---- a second application of collectUniqueTags to its own result
    pass,            \* 1: reducing the channel, 2: reducing the first result
    firstResult      \* entries returned by the first application

idemVars == <<pass, firstResult>>

VARIABLES
    \* ---- the list-driven workflow (one image list, tiles sent one by one)
    program,         \* which main is running (see Programs)
    clientOk,        \* api.ClientFromEnvironment() succeeds in this environment
    imageList,       \* the images named by the lines of the list file
    bpc,             \* position inside main / generateImageTags / send*Request
    imgIdx,          \* number of lines scanner.Scan() has returned
    tileCount,       \* len(images) returned by MakeImageTiles for this image
    tileIdx,         \* number of tiles the range loop has taken
    inflight,        \* Generate calls that have not returned yet
    requests,        \* every Generate call made so far
    response,        \* response.Response handed to the summary handler
    received,        \* every summary response handed to the handler so far
    pending,         \* imageDataWithTags about to be written
    err,             \* error travelling up from a handler or a Generate call
    artifacts,       \* the *_tags.json files written so far
    loaded,          \* images MakeImageTiles has been called for
    fatal            \* message of the log.Fatal call that ended the process

batchVars == <<program, clientOk, imageList, bpc, imgIdx, tileCount, tileIdx,
               inflight, requests, response, received, pending, err,
               artifacts, loaded, fatal>>

VARIABLES
    \* ---- the command line of the list-driven mains
    imageListFilePath,  \* -images_path
    tagsFilePath,       \* -tags_path
    mode                \* -mode

cfgVars == <<imageListFilePath, tagsFilePath, mode>>

\* decodeImage (loadImageFromFile / loadImageFromURL)
VARIABLES
    payload,         \* the bytes behind the reader: their format, size, intactness
    registered,      \* formats image.Decode recognises (image.RegisterFormat)
    reader,          \* number of bytes already read from the io.Reader
    dpc,             \* position inside decodeImage: the decoder tried next
    attempts,        \* the decoders called so far, each with the position it read from
    format           \* the format string returned with the image

decVars == <<payload, registered, reader, dpc, attempts, format>>

\* the state outside the tile planner and the fan-out
restVars == <<idemVars, batchVars, cfgVars, decVars>>

vars == <<tileVars, fanVars, restVars>>

(* ------------- inference fan-out / fan-in: data and state --------------- *)
\* largest number of tiles (len(images)) explored by the fan-out
MaxTiles == 2
confidenceThreshold == 50

TagNames == {"wheel", "door"}
Confidences == {40, 50, 80}
Subjects == {"car", "boat"}

\* type VisionModelTag struct { Object string; Confidence int }
VisionModelTag == [Object : TagNames, Confidence : Confidences]

SeqsUpTo(S, n) == UNION {[1..k -> S] : k \in 0..n}

Tag(o, c) == [Object |-> o, Confidence |-> c]

\* the tag lists a tile's response may carry in the fan-out: none, one below
\* the threshold, and two lists naming the same objects with other confidences
TileTagLists ==
    { <<>>,
      <<Tag("wheel", 40)>>,
      <<Tag("wheel", 80), Tag("door", 50)>>,
      <<Tag("door", 80), Tag("wheel", 50)>> }

\* the zero value of VisionModelSummary (received from a closed, empty channel)
ZeroSummary == [Subject |-> ""]

\* a goroutine of sendVisionSummaryRequest / sendVisionTagsRequest
\*   pc      : idle, start, call, handler, defer, generet, end
\*   outcome : none, ok (response parses), malformed (json.Unmarshal fails),
\*             transport (Generate fails without a response)
\*   sent    : the handler wrote its value to the channel
\*   dones   : number of wg.Done() calls made so far
IdleTask == [pc |-> "idle", outcome |-> "none", sent |-> FALSE, dones |-> 0,
             Subject |-> "", Tags |-> <<>>]

Running == panicked = "" /\ mpc # "exit"

NTiles == Len(images)

\* tiles whose goroutine has been started by the loop of generateImageTags
Launched == {i \in 1..NTiles : tagTask[i].pc # "idle"}

\* decodeImage has not been called
DecodeIdle ==
    /\ payload = [format |-> "png", size |-> 0, intact |-> TRUE]
    /\ registered = {"png", "jpeg"}
    /\ reader = 0
    /\ dpc = "idle"
    /\ attempts = <<>>
    /\ format = ""

\* the list-driven mains and the second reducer pass have not started
ListIdle ==
    /\ pass = 1
    /\ firstResult = {}
    /\ program = "cmd/tag"
    /\ clientOk = TRUE
    /\ imageList = <<>>
    /\ bpc = "idle"
    /\ imgIdx = 0
    /\ tileCount = 0
    /\ tileIdx = 0
    /\ inflight = {}
    /\ requests = {}
    /\ response = <<>>
    /\ received = {}
    /\ pending = <<>>
    /\ err = ""
    /\ artifacts = {}
    /\ loaded = {}
    /\ fatal = ""
    /\ imageListFilePath = ""
    /\ tagsFilePath = ""
    /\ mode = "fit"

\* nothing outside the tile planner and the fan-out has started
RestIdle ==
    /\ ListIdle
    /\ DecodeIdle

FanIdle ==
    /\ mpc = "tiling"
    /\ panicked = ""
    /\ summaryWg = 0
    /\ summaries = <<>>
    /\ summariesClosed = FALSE
    /\ summaryTask = IdleTask
    /\ summary = ZeroSummary
    /\ wg = 0
    /\ results = <<>>
    /\ resultsClosed = FALSE
    /\ tagTask = [i \in 1..MaxTiles |-> IdleTask]
    /\ threshold = confidenceThreshold
    /\ tagMap = {}
    /\ uniqueTags = <<>>
    /\ artifact = <<>>

(* ------------------------- tile planner -------------------------------- *)
ModeFit == "fit"
ModeTile == "tile"

\* imaging.Resize: a zero target dimension is derived from the other one,
\* preserving the aspect ratio, minimum 1 pixel
ResizeDims(srcW, srcH, dstW, dstH) ==
    IF dstW < 0 \/ dstH < 0 THEN <<0, 0>>
    ELSE IF dstW = 0 /\ dstH = 0 THEN <<0, 0>>
    ELSE IF srcW <= 0 \/ srcH <= 0 THEN <<0, 0>>
    ELSE IF dstW = 0 THEN <<Max(1, (2 * dstH * srcW + srcH) \div (2 * srcH)), dstH>>
    ELSE IF dstH = 0 THEN <<dstW, Max(1, (2 * dstW * srcH + srcW) \div (2 * srcW))>>
    ELSE <<dstW, dstH>>

\* FitDims with the aspect-ratio comparison reversed
FitDims_wrongAxis(srcW, srcH, maxW, maxH) ==
    IF maxW <= 0 \/ maxH <= 0 THEN <<0, 0>>
    ELSE IF srcW <= 0 \/ srcH <= 0 THEN <<0, 0>>
    ELSE IF srcW <= maxW /\ srcH <= maxH THEN <<srcW, srcH>>
    ELSE IF srcW * maxH < maxW * srcH
         THEN ResizeDims(srcW, srcH, maxW, (maxW * srcH) \div srcW)
         ELSE ResizeDims(srcW, srcH, (maxH * srcW) \div srcH, maxH)

\* imaging.Fit(img, maxW, maxH): dimensions of the returned image
FitDims(srcW, srcH, maxW, maxH) ==
    IF maxW <= 0 \/ maxH <= 0 THEN <<0, 0>>
    ELSE IF srcW <= 0 \/ srcH <= 0 THEN <<0, 0>>
    ELSE IF srcW <= maxW /\ srcH <= maxH THEN <<srcW, srcH>>
    ELSE IF srcW * maxH > maxW * srcH
         THEN ResizeDims(srcW, srcH, maxW, (maxW * srcH) \div srcW)
         ELSE ResizeDims(srcW, srcH, (maxH * srcW) \div srcH, maxH)

\* ScaleDown rounding up instead of down
ScaleDown_roundsUp(d, pixels, maxPixels) ==
    CHOOSE n \in 0..d : /\ n * n * pixels >= d * d * maxPixels
                        /\ \A k \in 0..(n - 1) : k * k * pixels < d * d * maxPixels

\* int(math.Floor(d / math.Sqrt(pixels / maxPixels))) for pixels > maxPixels
ScaleDown(d, pixels, maxPixels) ==
    CHOOSE n \in 0..d : /\ n * n * pixels <= d * d * maxPixels
                        /\ (n + 1) * (n + 1) * pixels > d * d * maxPixels

\* resizeImage, the branch for an image over the pixel budget: the values of
\* newWidth and newHeight handed to imaging.Fit (<<0, 0>>: never computed)
resizeTarget(w, h, m, maxPixels) ==
    IF m # ModeFit /\ w * h > maxPixels /\ maxPixels > 0
    THEN <<ScaleDown(w, w * h, maxPixels), ScaleDown(h, w * h, maxPixels)>>
    ELSE <<0, 0>>

\* resizeImage fitting to the tile size in every mode
resizeImage_alwaysFit(w, h, m, cw, ch, maxPixels) ==
    FitDims(w, h, cw, ch)

\* resizeImage: dimensions of the image it returns
resizeImage(w, h, m, cw, ch, maxPixels) ==
    IF m = ModeFit THEN FitDims(w, h, cw, ch)
    ELSE IF w * h > maxPixels /\ maxPixels > 0
         THEN FitDims(w, h, resizeTarget(w, h, m, maxPixels)[1],
                            resizeTarget(w, h, m, maxPixels)[2])
         ELSE IF w * h > maxPixels THEN <<0, 0>>
         ELSE <<w, h>>

\* a step of the whole tile: adjacent tiles do not overlap
HalfStep_noOverlap(crop) == crop

\* int(float64(crop) * 0.5)
HalfStep(crop) == crop \div 2

\* cropRect moving an overshooting rectangle back inside the image
cropRect_shifted(px, py, cw, ch, w, h) ==
    [x |-> Max(0, Min(px, w - cw)), y |-> Max(0, Min(py, h - ch)),
     w |-> Min(cw, w), h |-> Min(ch, h)]

\* cropRect without the clamp to the image edge
cropRect_unclamped(px, py, cw, ch, w, h) ==
    [x |-> px, y |-> py, w |-> cw, h |-> ch]

\* image.Rect(x, y, min(x+cropWidth, imgWidth), min(y+cropHeight, imgHeight))
cropRect(px, py, cw, ch, w, h) ==
    [x |-> px, y |-> py,
     w |-> Min(px + cw, w) - px,
     h |-> Min(py + ch, h) - py]

TileInit ==
    /\ FanIdle
    /\ RestIdle
    /\ Mode \in {ModeFit, ModeTile}
    /\ Width \in 0..MaxCrop
    /\ Height \in 0..MaxCrop
    /\ MaxImagePixels \in {2, 6, 3 * MaxDim, MaxDim * MaxDim}
    /\ srcWidth \in 1..MaxDim
    /\ srcHeight \in 1..MaxDim
    /\ newWidth = 0
    /\ newHeight = 0
    /\ imgWidth = 0
    /\ imgHeight = 0
    /\ tpc = "load"
    /\ x = 0
    /\ y = 0
    /\ croppedImages = <<>>
    /\ encoded = 0
    /\ images = <<>>

\* MakeImageTiles: the image is loaded and decoded
LoadImage ==
    /\ tpc = "load"
    /\ tpc' = "resize"
    /\ UNCHANGED <<Mode, Width, Height, MaxImagePixels, srcWidth, srcHeight,
                   newWidth, newHeight,
                   imgWidth, imgHeight, x, y, croppedImages, encoded, images, fanVars, restVars>>

\* MakeImageTiles: loading fails (unknown protocol, unreadable file,
\* non-200 fetch, no decoder accepts the payload): return nil
LoadImageFail ==
    /\ tpc = "load"
    /\ tpc' = "returned"
    /\ images' = <<>>
    /\ UNCHANGED <<Mode, Width, Height, MaxImagePixels, srcWidth, srcHeight,
                   newWidth, newHeight,
                   imgWidth, imgHeight, x, y, croppedImages, encoded, fanVars, restVars>>

\* img = resizeImage(img, options)
ResizeImage ==
    /\ tpc = "resize"
    /\ LET d == resizeImage(srcWidth, srcHeight, Mode, Width, Height, MaxImagePixels)
           t == resizeTarget(srcWidth, srcHeight, Mode, MaxImagePixels)
       IN /\ imgWidth' = d[1]
          /\ imgHeight' = d[2]
          /\ newWidth' = t[1]
          /\ newHeight' = t[2]
    /\ tpc' = "crop"
    /\ UNCHANGED <<Mode, Width, Height, MaxImagePixels, srcWidth, srcHeight,
                   x, y, croppedImages, encoded, images, fanVars, restVars>>

\* cropImage entry with a strict comparison in the early return
CropImage_strictSmall ==
    /\ tpc = "crop"
    /\ IF imgWidth < Width /\ imgHeight < Height
       THEN /\ croppedImages' = <<[x |-> 0, y |-> 0, w |-> imgWidth, h |-> imgHeight]>>
            /\ tpc' = "encode"
       ELSE /\ croppedImages' = <<>>
            /\ tpc' = "outer"
    /\ x' = 0
    /\ y' = 0
    /\ UNCHANGED <<Mode, Width, Height, MaxImagePixels, srcWidth, srcHeight,
                   newWidth, newHeight,
                   imgWidth, imgHeight, encoded, images, fanVars, restVars>>

\* cropImage entry: the early return for a small image, else the loop set-up
CropImage ==
    /\ tpc = "crop"
    /\ IF imgWidth <= Width /\ imgHeight <= Height
       THEN /\ croppedImages' = <<[x |-> 0, y |-> 0, w |-> imgWidth, h |-> imgHeight]>>
            /\ tpc' = "encode"
       ELSE /\ croppedImages' = <<>>
            /\ tpc' = "outer"
    /\ x' = 0
    /\ y' = 0
    /\ UNCHANGED <<Mode, Width, Height, MaxImagePixels, srcWidth, srcHeight,
                   newWidth, newHeight,
                   imgWidth, imgHeight, encoded, images, fanVars, restVars>>

\* for y := 0; y < imgHeight-heightStep; ... : the loop test
CropOuter ==
    /\ tpc = "outer"
    /\ IF y < imgHeight - HalfStep(Height)
       THEN /\ x' = 0
            /\ tpc' = "inner"
       ELSE /\ x' = x
            /\ tpc' = "encode"
    /\ UNCHANGED <<Mode, Width, Height, MaxImagePixels, srcWidth, srcHeight,
                   newWidth, newHeight,
                   imgWidth, imgHeight, y, croppedImages, encoded, images, fanVars, restVars>>

\* for x := 0; x < imgWidth-widthStep; x += widthStep : test, body, increment
\* (when the test fails: y += heightStep and back to the outer test)
CropInner ==
    /\ tpc = "inner"
    /\ IF x < imgWidth - HalfStep(Width)
       THEN /\ Len(croppedImages) < MaxSweep
            /\ croppedImages' = Append(croppedImages,
                   cropRect(x, y, Width, Height, imgWidth, imgHeight))
            /\ x' = x + HalfStep(Width)
            /\ y' = y
            /\ tpc' = "inner"
       ELSE /\ y' = y + HalfStep(Height)
            /\ x' = x
            /\ tpc' = "outer"
            /\ croppedImages' = croppedImages
    /\ UNCHANGED <<Mode, Width, Height, MaxImagePixels, srcWidth, srcHeight,
                   newWidth, newHeight,
                   imgWidth, imgHeight, encoded, images, fanVars, restVars>>

\* png.Encode accepts the tile (an image with an empty side is refused)
EncodeTile ==
    /\ tpc = "encode"
    /\ encoded < Len(croppedImages)
    /\ croppedImages[encoded + 1].w >= 1
    /\ croppedImages[encoded + 1].h >= 1
    /\ encoded' = encoded + 1
    /\ UNCHANGED <<Mode, Width, Height, MaxImagePixels, srcWidth, srcHeight,
                   newWidth, newHeight,
                   imgWidth, imgHeight, tpc, x, y, croppedImages, images, fanVars, restVars>>

\* png.Encode returns an error for a tile: MakeImageTiles returns nil
EncodeTileFail ==
    /\ tpc = "encode"
    /\ encoded < Len(croppedImages)
    /\ tpc' = "returned"
    /\ images' = <<>>
    /\ UNCHANGED <<Mode, Width, Height, MaxImagePixels, srcWidth, srcHeight,
                   newWidth, newHeight,
                   imgWidth, imgHeight, x, y, croppedImages, encoded, fanVars, restVars>>

\* return imageData
ReturnTiles ==
    /\ tpc = "encode"
    /\ encoded = Len(croppedImages)
    /\ tpc' = "returned"
    /\ images' = croppedImages
    /\ UNCHANGED <<Mode, Width, Height, MaxImagePixels, srcWidth, srcHeight,
                   newWidth, newHeight,
                   imgWidth, imgHeight, x, y, croppedImages, encoded, fanVars, restVars>>

\* main: generateImageSummary(ollamaClient, images[0])
TakeFirstTile ==
    /\ tpc = "returned"
    /\ IF Len(images) = 0
       THEN tpc' = "panic"
       ELSE tpc' = "summary"
    /\ UNCHANGED <<Mode, Width, Height, MaxImagePixels, srcWidth, srcHeight,
                   newWidth, newHeight,
                   imgWidth, imgHeight, x, y, croppedImages, encoded, images, fanVars, restVars>>

TileNext ==
    \/ LoadImage
    \/ LoadImageFail
    \/ ResizeImage
    \/ CropImage
    \/ CropOuter
    \/ CropInner
    \/ EncodeTile
    \/ EncodeTileFail
    \/ ReturnTiles
    \/ TakeFirstTile

SpecTile == TileInit /\ [][TileNext]_vars

\* MakeImageTiles runs in one goroutine that keeps executing while it has a
\* next statement
FairSpecTile == SpecTile /\ WF_vars(TileNext)

(* --------- main, generateImageSummary, generateImageTags --------------- *)
\* the state in which MakeImageTiles has returned n tiles of 2 x 2 cut from a
\* source of (n+1) x 2 pixels in tile mode
TilesReturned(n) ==
    /\ Mode = ModeTile
    /\ Width = 2
    /\ Height = 2
    /\ MaxImagePixels = MaxDim * MaxDim
    /\ srcWidth = n + 1
    /\ srcHeight = 2
    /\ newWidth = 0
    /\ newHeight = 0
    /\ imgWidth = n + 1
    /\ imgHeight = 2
    /\ tpc = "summary"
    /\ x = IF n = 1 THEN 0 ELSE n
    /\ y = IF n = 1 THEN 0 ELSE 1
    /\ croppedImages = [k \in 1..n |-> cropRect(k - 1, 0, 2, 2, n + 1, 2)]
    /\ encoded = n
    /\ images = croppedImages

\* main: summary := generateImageSummary(ollamaClient, images[0]) is entered
FanInit ==
    /\ RestIdle
    /\ \E n \in 1..MaxTiles : TilesReturned(n)
    /\ mpc = "summary_go"
    /\ panicked = ""
    /\ summaryWg = 0
    /\ summaries = <<>>
    /\ summariesClosed = FALSE
    /\ summaryTask = IdleTask
    /\ summary = ZeroSummary
    /\ wg = 0
    /\ results = <<>>
    /\ resultsClosed = FALSE
    /\ tagTask = [i \in 1..MaxTiles |-> IdleTask]
    /\ threshold = confidenceThreshold
    /\ tagMap = {}
    /\ uniqueTags = <<>>
    /\ artifact = <<>>

\* ---- generateImageSummary and sendVisionSummaryRequest

\* wg.Add(1); go sendVisionSummaryRequest(...)
GoSummary ==
    /\ Running
    /\ mpc = "summary_go"
    /\ summaryWg' = summaryWg + 1
    /\ summaryTask' = [summaryTask EXCEPT !.pc = "start"]
    /\ mpc' = "summary_wait"
    /\ UNCHANGED <<panicked, summaries, summariesClosed, summary, wg, results,
                   resultsClosed, tagTask, threshold, tagMap, uniqueTags,
                   artifact, tileVars, restVars>>

\* the goroutine builds the request and calls ollamaClient.Generate
SummarySend ==
    /\ Running
    /\ summaryTask.pc = "start"
    /\ summaryTask' = [summaryTask EXCEPT !.pc = "call"]
    /\ UNCHANGED <<mpc, panicked, summaryWg, summaries, summariesClosed, summary,
                   wg, results, resultsClosed, tagTask, threshold, tagMap,
                   uniqueTags, artifact, tileVars, restVars>>

\* the endpoint answers: Generate invokes responseHandler with the response
SummaryRespond ==
    /\ Running
    /\ summaryTask.pc = "call"
    /\ \/ \E s \in Subjects :
            summaryTask' = [summaryTask EXCEPT !.pc = "handler",
                                               !.outcome = "ok", !.Subject = s]
       \/ summaryTask' = [summaryTask EXCEPT !.pc = "handler",
                                             !.outcome = "malformed"]
    /\ UNCHANGED <<mpc, panicked, summaryWg, summaries, summariesClosed, summary,
                   wg, results, resultsClosed, tagTask, threshold, tagMap,
                   uniqueTags, artifact, tileVars, restVars>>

\* Generate fails at transport level: it returns an error, no handler call
SummaryTransportFail ==
    /\ Running
    /\ summaryTask.pc = "call"
    /\ summaryTask' = [summaryTask EXCEPT !.pc = "generet", !.outcome = "transport"]
    /\ UNCHANGED <<mpc, panicked, summaryWg, summaries, summariesClosed, summary,
                   wg, results, resultsClosed, tagTask, threshold, tagMap,
                   uniqueTags, artifact, tileVars, restVars>>

\* responseHandler body: json.Unmarshal, then summaries <- imageSummary
\* (a send blocks while the buffer is full and panics on a closed channel)
SummaryHandler ==
    /\ Running
    /\ summaryTask.pc = "handler"
    /\ IF summaryTask.outcome = "malformed"
       THEN /\ summaryTask' = [summaryTask EXCEPT !.pc = "defer"]
            /\ UNCHANGED <<summaries, panicked>>
       ELSE IF summariesClosed
            THEN /\ panicked' = "send on closed channel"
                 /\ UNCHANGED <<summaries, summaryTask>>
            ELSE /\ Len(summaries) < 1
                 /\ summaries' = Append(summaries, [Subject |-> summaryTask.Subject])
                 /\ summaryTask' = [summaryTask EXCEPT !.pc = "defer", !.sent = TRUE]
                 /\ UNCHANGED panicked
    /\ UNCHANGED <<mpc, summaryWg, summariesClosed, summary, wg, results,
                   resultsClosed, tagTask, threshold, tagMap, uniqueTags,
                   artifact, tileVars, restVars>>

\* defer wg.Done() of responseHandler
SummaryHandlerDone ==
    /\ Running
    /\ summaryTask.pc = "defer"
    /\ summaryWg' = summaryWg - 1
    /\ panicked' = IF summaryWg' < 0 THEN "negative WaitGroup counter" ELSE panicked
    /\ summaryTask' = [summaryTask EXCEPT !.pc = "generet", !.dones = @ + 1]
    /\ UNCHANGED <<mpc, summaries, summariesClosed, summary, wg, results,
                   resultsClosed, tagTask, threshold, tagMap, uniqueTags,
                   artifact, tileVars, restVars>>

\* Generate returns (the handler's error, or the transport error):
\* if err != nil { wg.Done() }
SummaryGenerateReturn ==
    /\ Running
    /\ summaryTask.pc = "generet"
    /\ IF summaryTask.outcome \in {"malformed", "transport"}
       THEN /\ summaryWg' = summaryWg - 1
            /\ panicked' = IF summaryWg' < 0 THEN "negative WaitGroup counter"
                           ELSE panicked
            /\ summaryTask' = [summaryTask EXCEPT !.pc = "end", !.dones = @ + 1]
       ELSE /\ summaryTask' = [summaryTask EXCEPT !.pc = "end"]
            /\ UNCHANGED <<summaryWg, panicked>>
    /\ UNCHANGED <<mpc, summaries, summariesClosed, summary, wg, results,
                   resultsClosed, tagTask, threshold, tagMap, uniqueTags,
                   artifact, tileVars, restVars>>

\* generateImageSummary going on without waiting for its goroutine
WaitSummary_noBarrier ==
    /\ Running
    /\ mpc = "summary_wait"
    /\ mpc' = "summary_close"
    /\ UNCHANGED <<panicked, summaryWg, summaries, summariesClosed, summaryTask,
                   summary, wg, results, resultsClosed, tagTask, threshold,
                   tagMap, uniqueTags, artifact, tileVars, restVars>>

\* wg.Wait() of generateImageSummary returns
WaitSummary ==
    /\ Running
    /\ mpc = "summary_wait"
    /\ summaryWg = 0
    /\ mpc' = "summary_close"
    /\ UNCHANGED <<panicked, summaryWg, summaries, summariesClosed, summaryTask,
                   summary, wg, results, resultsClosed, tagTask, threshold,
                   tagMap, uniqueTags, artifact, tileVars, restVars>>

\* close(results) of generateImageSummary
CloseSummary ==
    /\ Running
    /\ mpc = "summary_close"
    /\ summariesClosed' = TRUE
    /\ mpc' = "summary_recv"
    /\ UNCHANGED <<panicked, summaryWg, summaries, summaryTask, summary, wg,
                   results, resultsClosed, tagTask, threshold, tagMap,
                   uniqueTags, artifact, tileVars, restVars>>

\* return <-results : the buffered value, or the zero value of a closed channel
RecvSummary ==
    /\ Running
    /\ mpc = "summary_recv"
    /\ IF Len(summaries) > 0
       THEN /\ summary' = Head(summaries)
            /\ summaries' = Tail(summaries)
       ELSE /\ summary' = ZeroSummary
            /\ summaries' = summaries
    /\ mpc' = "tags_go"
    /\ UNCHANGED <<panicked, summaryWg, summariesClosed, summaryTask, wg,
                   results, resultsClosed, tagTask, threshold, tagMap,
                   uniqueTags, artifact, tileVars, restVars>>

\* ---- collectUniqueTags: the map and the per-tag step

\* _, exists := tagMap[key]
MapHas(m, key) == \E e \in m : e.Object = key

\* tagMap[key]
MapGet(m, key) == CHOOSE e \in m : e.Object = key

\* an assignment that adds the entry without replacing the one under its key
MapPut_keepAll(m, tag) == m \cup {tag}

\* tagMap[tag.Object] = tag
MapPut(m, tag) == {e \in m : e.Object # tag.Object} \cup {tag}

\* the per-tag step comparing with < (keeps the lowest confidence)
StoreTag_keepsLower(m, tag, t) ==
    IF tag.Confidence >= t
    THEN IF ~MapHas(m, tag.Object)
            \/ tag.Confidence < MapGet(m, tag.Object).Confidence
         THEN MapPut(m, tag)
         ELSE m
    ELSE m

\* the per-tag step filtering with > (drops a confidence equal to the threshold)
StoreTag_strictThreshold(m, tag, t) ==
    IF tag.Confidence > t
    THEN IF ~MapHas(m, tag.Object)
            \/ tag.Confidence > MapGet(m, tag.Object).Confidence
         THEN MapPut(m, tag)
         ELSE m
    ELSE m

\* the per-tag step storing without the comparison (the last observation of a
\* name stays)
StoreTag_lastWins(m, tag, t) ==
    IF tag.Confidence >= t
    THEN MapPut(m, tag)
    ELSE m

\* body of the inner loop of collectUniqueTags for one tag
StoreTag(m, tag, t) ==
    IF tag.Confidence >= t
    THEN IF ~MapHas(m, tag.Object)
            \/ tag.Confidence > MapGet(m, tag.Object).Confidence
         THEN MapPut(m, tag)
         ELSE m
    ELSE m

\* for _, tag := range summary.Tags { ... }
RECURSIVE collectTags(_, _, _)
collectTags(m, tags, t) ==
    IF tags = <<>> THEN m
    ELSE collectTags(StoreTag(m, Head(tags), t), Tail(tags), t)

\* the orders in which ranging over a map can visit its entries
Perms(S) ==
    {f \in [1..Cardinality(S) -> S] :
        \A i, j \in 1..Cardinality(S) : i # j => f[i] # f[j]}

\* ---- generateImageTags and sendVisionTagsRequest

\* one iteration of the loop: wg.Add(1); go sendVisionTagsRequest(..., subject, ...)
GoTags ==
    /\ Running
    /\ mpc = "tags_go"
    /\ Cardinality(Launched) < NTiles
    /\ LET i == Cardinality(Launched) + 1
       IN tagTask' = [tagTask EXCEPT ![i].pc = "start",
                                     ![i].Subject = summary.Subject]
    /\ wg' = wg + 1
    /\ UNCHANGED <<mpc, panicked, summaryWg, summaries, summariesClosed,
                   summaryTask, summary, results, resultsClosed, threshold,
                   tagMap, uniqueTags, artifact, tileVars, restVars>>

\* the goroutine builds the prompt and calls ollamaClient.Generate
TagsSend(i) ==
    /\ Running
    /\ tagTask[i].pc = "start"
    /\ tagTask' = [tagTask EXCEPT ![i].pc = "call"]
    /\ UNCHANGED <<mpc, panicked, summaryWg, summaries, summariesClosed,
                   summaryTask, summary, wg, results, resultsClosed, threshold,
                   tagMap, uniqueTags, artifact, tileVars, restVars>>

\* the endpoint answers: Generate invokes responseHandler with the response
TagsRespond(i) ==
    /\ Running
    /\ tagTask[i].pc = "call"
    /\ \/ \E t \in TileTagLists :
            tagTask' = [tagTask EXCEPT ![i].pc = "handler",
                                       ![i].outcome = "ok", ![i].Tags = t]
       \/ tagTask' = [tagTask EXCEPT ![i].pc = "handler",
                                     ![i].outcome = "malformed"]
    /\ UNCHANGED <<mpc, panicked, summaryWg, summaries, summariesClosed,
                   summaryTask, summary, wg, results, resultsClosed, threshold,
                   tagMap, uniqueTags, artifact, tileVars, restVars>>

\* Generate fails at transport level: it returns an error, no handler call
TagsTransportFail(i) ==
    /\ Running
    /\ tagTask[i].pc = "call"
    /\ tagTask' = [tagTask EXCEPT ![i].pc = "generet", ![i].outcome = "transport"]
    /\ UNCHANGED <<mpc, panicked, summaryWg, summaries, summariesClosed,
                   summaryTask, summary, wg, results, resultsClosed, threshold,
                   tagMap, uniqueTags, artifact, tileVars, restVars>>

\* responseHandler body: json.Unmarshal, then summaries <- imageSummary
\* (a send blocks while the buffer is full and panics on a closed channel)
TagsHandler(i) ==
    /\ Running
    /\ tagTask[i].pc = "handler"
    /\ IF tagTask[i].outcome = "malformed"
       THEN /\ tagTask' = [tagTask EXCEPT ![i].pc = "defer"]
            /\ UNCHANGED <<results, panicked>>
       ELSE IF resultsClosed
            THEN /\ panicked' = "send on closed channel"
                 /\ UNCHANGED <<results, tagTask>>
            ELSE /\ Len(results) < NTiles
                 /\ results' = Append(results, [Tags |-> tagTask[i].Tags])
                 /\ tagTask' = [tagTask EXCEPT ![i].pc = "defer", ![i].sent = TRUE]
                 /\ UNCHANGED panicked
    /\ UNCHANGED <<mpc, summaryWg, summaries, summariesClosed, summaryTask,
                   summary, wg, resultsClosed, threshold, tagMap, uniqueTags,
                   artifact, tileVars, restVars>>

\* defer wg.Done() of responseHandler
TagsHandlerDone(i) ==
    /\ Running
    /\ tagTask[i].pc = "defer"
    /\ wg' = wg - 1
    /\ panicked' = IF wg' < 0 THEN "negative WaitGroup counter" ELSE panicked
    /\ tagTask' = [tagTask EXCEPT ![i].pc = "generet", ![i].dones = @ + 1]
    /\ UNCHANGED <<mpc, summaryWg, summaries, summariesClosed, summaryTask,
                   summary, results, resultsClosed, threshold, tagMap,
                   uniqueTags, artifact, tileVars, restVars>>

\* sendVisionTagsRequest logging the error of Generate without wg.Done()
TagsGenerateReturn_noDone(i) ==
    /\ Running
    /\ tagTask[i].pc = "generet"
    /\ tagTask' = [tagTask EXCEPT ![i].pc = "end"]
    /\ UNCHANGED <<mpc, panicked, summaryWg, summaries, summariesClosed,
                   summaryTask, summary, wg, results, resultsClosed, threshold,
                   tagMap, uniqueTags, artifact, tileVars, restVars>>

\* Generate returns (the handler's error, or the transport error):
\* if err != nil { wg.Done() }
TagsGenerateReturn(i) ==
    /\ Running
    /\ tagTask[i].pc = "generet"
    /\ IF tagTask[i].outcome \in {"malformed", "transport"}
       THEN /\ wg' = wg - 1
            /\ panicked' = IF wg' < 0 THEN "negative WaitGroup counter"
                           ELSE panicked
            /\ tagTask' = [tagTask EXCEPT ![i].pc = "end", ![i].dones = @ + 1]
       ELSE /\ tagTask' = [tagTask EXCEPT ![i].pc = "end"]
            /\ UNCHANGED <<wg, panicked>>
    /\ UNCHANGED <<mpc, summaryWg, summaries, summariesClosed, summaryTask,
                   summary, results, resultsClosed, threshold, tagMap,
                   uniqueTags, artifact, tileVars, restVars>>

\* the loop has started every goroutine and wg.Wait() returns
WaitTags ==
    /\ Running
    /\ mpc = "tags_go"
    /\ Cardinality(Launched) = NTiles
    /\ wg = 0
    /\ mpc' = "tags_close"
    /\ UNCHANGED <<panicked, summaryWg, summaries, summariesClosed, summaryTask,
                   summary, wg, results, resultsClosed, tagTask, threshold,
                   tagMap, uniqueTags, artifact, tileVars, restVars>>

\* close(results); collectUniqueTags is entered: tagMap := make(map...)
CloseResults ==
    /\ Running
    /\ mpc = "tags_close"
    /\ resultsClosed' = TRUE
    /\ tagMap' = {}
    /\ mpc' = "collect"
    /\ UNCHANGED <<panicked, summaryWg, summaries, summariesClosed, summaryTask,
                   summary, wg, results, tagTask, threshold, uniqueTags,
                   artifact, tileVars, restVars>>

\* for summary := range summaryChan : one received message and its tags
CollectRecv ==
    /\ Running
    /\ mpc = "collect"
    /\ Len(results) > 0
    /\ tagMap' = collectTags(tagMap, Head(results).Tags, threshold)
    /\ results' = Tail(results)
    /\ UNCHANGED <<mpc, panicked, summaryWg, summaries, summariesClosed,
                   summaryTask, summary, wg, resultsClosed, tagTask, threshold,
                   uniqueTags, artifact, tileVars, restVars>>

\* the channel is closed and drained: the map values are copied to a slice
CollectFinish ==
    /\ Running
    /\ mpc = "collect"
    /\ Len(results) = 0
    /\ uniqueTags' \in Perms(tagMap)
    /\ mpc' = "write"
    /\ UNCHANGED <<panicked, summaryWg, summaries, summariesClosed, summaryTask,
                   summary, wg, results, resultsClosed, tagTask, threshold,
                   tagMap, artifact, tileVars, restVars>>

\* main: json.Marshal(imageDataWithTags); os.WriteFile(...) succeeds
WriteArtifact ==
    /\ Running
    /\ mpc = "write"
    /\ artifact' = Append(artifact, [Subject |-> summary.Subject, Tags |-> uniqueTags])
    /\ mpc' = "exit"
    /\ UNCHANGED <<panicked, summaryWg, summaries, summariesClosed, summaryTask,
                   summary, wg, results, resultsClosed, tagTask, threshold,
                   tagMap, uniqueTags, tileVars, restVars>>

\* main: os.WriteFile returns an error, main logs it and returns
WriteArtifactFail ==
    /\ Running
    /\ mpc = "write"
    /\ mpc' = "exit"
    /\ UNCHANGED <<panicked, summaryWg, summaries, summariesClosed, summaryTask,
                   summary, wg, results, resultsClosed, tagTask, threshold,
                   tagMap, uniqueTags, artifact, tileVars, restVars>>

FanNext ==
    \/ GoSummary
    \/ SummarySend
    \/ SummaryRespond
    \/ SummaryTransportFail
    \/ SummaryHandler
    \/ SummaryHandlerDone
    \/ SummaryGenerateReturn
    \/ WaitSummary
    \/ CloseSummary
    \/ RecvSummary
    \/ GoTags
    \/ \E i \in 1..MaxTiles : TagsSend(i)
    \/ \E i \in 1..MaxTiles : TagsRespond(i)
    \/ \E i \in 1..MaxTiles : TagsTransportFail(i)
    \/ \E i \in 1..MaxTiles : TagsHandler(i)
    \/ \E i \in 1..MaxTiles : TagsHandlerDone(i)
    \/ \E i \in 1..MaxTiles : TagsGenerateReturn(i)
    \/ WaitTags
    \/ CloseResults
    \/ CollectRecv
    \/ CollectFinish
    \/ WriteArtifact
    \/ WriteArtifactFail

SpecFan == FanInit /\ [][FanNext]_vars

\* the Go scheduler runs a goroutine that can take a step, and every Generate
\* call ends in a response or a transport error
FairSpecFan == SpecFan /\ WF_vars(FanNext)

(* ------------------ the reducer on a closed channel --------------------- *)
\* largest total number of tag observations buffered in the channel
MaxObs == 3

\* thresholds explored: the default, and a value set with -confidence
Thresholds == {confidenceThreshold, 80}

\* the ways of cutting a list of len observations into n consecutive messages
Cuts(n, len) ==
    {c \in [0..n -> 0..len] :
        c[0] = 0 /\ c[n] = len /\ \A i \in 1..n : c[i - 1] <= c[i]}

\* generateImageTags after close(results): n tiles have each delivered one
\* response, the responses carry the observations obs cut at c
ChannelClosedWith(n, obs, c) ==
    /\ TilesReturned(n)
    /\ mpc = "collect"
    /\ panicked = ""
    /\ summaryWg = 0
    /\ summaries = <<>>
    /\ summariesClosed = TRUE
    /\ summaryTask = [pc |-> "end", outcome |-> "ok", sent |-> TRUE, dones |-> 1,
                      Subject |-> "car", Tags |-> <<>>]
    /\ summary = [Subject |-> "car"]
    /\ wg = 0
    /\ results = [i \in 1..n |-> [Tags |-> SubSeq(obs, c[i - 1] + 1, c[i])]]
    /\ resultsClosed = TRUE
    /\ tagTask = [i \in 1..MaxTiles |->
                    IF i <= n
                    THEN [pc |-> "end", outcome |-> "ok", sent |-> TRUE,
                          dones |-> 1, Subject |-> "car",
                          Tags |-> SubSeq(obs, c[i - 1] + 1, c[i])]
                    ELSE IdleTask]
    /\ tagMap = {}
    /\ uniqueTags = <<>>
    /\ artifact = <<>>

ReduceInit ==
    /\ RestIdle
    /\ threshold \in Thresholds
    /\ \E n \in 1..MaxTiles :
         \E obs \in SeqsUpTo(VisionModelTag, MaxObs) :
           \E c \in Cuts(n, Len(obs)) : ChannelClosedWith(n, obs, c)

ReduceNext ==
    \/ CollectRecv
    \/ CollectFinish
    \/ WriteArtifact
    \/ WriteArtifactFail

SpecReduce == ReduceInit /\ [][ReduceNext]_vars

\* ---------------------------------------------------------------------------
\* collectUniqueTags applied to its own result: the returned slice is sent as
\* the single message of a fresh, closed channel and reduced again with the
\* same threshold
\* ---------------------------------------------------------------------------

ReduceAgain ==
    /\ Running
    /\ mpc = "write"
    /\ pass = 1
    /\ firstResult' = {uniqueTags[k] : k \in 1..Len(uniqueTags)}
    /\ results' = <<[Tags |-> uniqueTags]>>
    /\ tagMap' = {}
    /\ uniqueTags' = <<>>
    /\ mpc' = "collect"
    /\ pass' = 2
    /\ UNCHANGED <<panicked, summaryWg, summaries, summariesClosed, summaryTask,
                   summary, wg, resultsClosed, tagTask, threshold, artifact,
                   tileVars, batchVars, cfgVars, decVars>>

IdemNext ==
    \/ CollectRecv
    \/ CollectFinish
    \/ ReduceAgain

SpecIdem == ReduceInit /\ [][IdemNext]_vars

\* ---------------------------------------------------------------------------
\* collectUniqueTags on the same responses in another arrival order: the tile
\* goroutines of generateImageTags send to the channel in whatever order they
\* are answered, and a response lists its tags in whatever order the model
\* wrote them
\* ---------------------------------------------------------------------------

\* the rearrangements of a sequence
Permuted(s) == {[i \in 1..Len(s) |-> s[f[i]]] : f \in Perms(1..Len(s))}

\* the messages msgs with the tags of each one rearranged
RECURSIVE Arrangements(_)
Arrangements(msgs) ==
    IF msgs = <<>> THEN {<<>>}
    ELSE {<<[Tags |-> t]>> \o rest :
             t \in Permuted(Head(msgs).Tags), rest \in Arrangements(Tail(msgs))}

\* the responses the tile tasks delivered, by tile
Messages == [i \in 1..NTiles |-> [Tags |-> tagTask[i].Tags]]

\* the same tasks deliver the same responses in another order and
\* collectUniqueTags ranges over the channel again
ReducePermuted ==
    /\ Running
    /\ mpc = "write"
    /\ pass = 1
    /\ firstResult' = {uniqueTags[k] : k \in 1..Len(uniqueTags)}
    /\ \E order \in Permuted(Messages) : results' \in Arrangements(order)
    /\ tagMap' = {}
    /\ uniqueTags' = <<>>
    /\ mpc' = "collect"
    /\ pass' = 2
    /\ UNCHANGED <<panicked, summaryWg, summaries, summariesClosed, summaryTask,
                   summary, wg, resultsClosed, tagTask, threshold, artifact,
                   tileVars, batchVars, cfgVars, decVars>>

OrderNext ==
    \/ CollectRecv
    \/ CollectFinish
    \/ ReducePermuted

SpecOrder == ReduceInit /\ [][OrderNext]_vars

(* ------------- the list-driven workflow: strings and parsing ------------ *)
\* a Go string is modelled as the sequence of its characters

Legacy == "main.go"
FreeText == "part_002"
Structured == "part_003"

\* the mains that process a list of images tile by tile: the first one with
\* package imagetiler, the other two with package internal/imagetiler
Programs == {Legacy, FreeText, Structured}

UpperCase == <<"A", "B", "C", "D", "E", "F", "G", "H", "I", "J", "K", "L", "M",
               "N", "O", "P", "Q", "R", "S", "T", "U", "V", "W", "X", "Y", "Z">>
LowerCase == <<"a", "b", "c", "d", "e", "f", "g", "h", "i", "j", "k", "l", "m",
               "n", "o", "p", "q", "r", "s", "t", "u", "v", "w", "x", "y", "z">>

\* strings.ToLower on ASCII text
ToLower(s) ==
    [i \in 1..Len(s) |->
        IF \E k \in 1..Len(UpperCase) : UpperCase[k] = s[i]
        THEN LowerCase[CHOOSE k \in 1..Len(UpperCase) : UpperCase[k] = s[i]]
        ELSE s[i]]

\* the positions at which sep occurs in s
Occurrences(s, sep) ==
    {i \in 1..(Len(s) - Len(sep) + 1) : SubSeq(s, i, i + Len(sep) - 1) = sep}

\* strings.Split(s, sep) for a separator that cannot overlap itself (one
\* character, or two different characters): the pieces between its occurrences
Split(s, sep) ==
    LET occ == Occurrences(s, sep)
        n == Cardinality(occ)
    IN  [k \in 1..(n + 1) |->
            SubSeq(s, IF k = 1 THEN 1 ELSE Nth(occ, k - 1) + Len(sep),
                      IF k = n + 1 THEN Len(s) ELSE Nth(occ, k) - 1)]

\* the white space strings.TrimSpace removes (ASCII part)
WhiteSpace == {" ", "\t", "\n", "\r"}

\* strings.TrimSpace: s from its first to its last non-space character
TrimSpace(s) ==
    LET ink == {i \in 1..Len(s) : s[i] \notin WhiteSpace}
    IN  IF ink = {} THEN <<>>
        ELSE SubSeq(s, Nth(ink, 1), Nth(ink, Cardinality(ink)))

\* the handler of part_002 taking the caption from the second line
parseSummary_secondLine(text) ==
    LET lines == Split(text, <<"\n">>)
        tags == Split(ToLower(lines[1]), <<",", " ">>)
    IN  [Tags |-> [i \in 1..Len(tags) |-> TrimSpace(tags[i])],
         Alt |-> TrimSpace(lines[2])]

\* the handler of part_002 on a response of at least two lines: the Tags and
\* Alt fields of imageDataWithTags
parseSummary(text) ==
    LET lines == Split(text, <<"\n">>)
        tags == Split(ToLower(lines[1]), <<",", " ">>)
    IN  [Tags |-> [i \in 1..Len(tags) |-> TrimSpace(tags[i])],
         Alt |-> TrimSpace(lines[Len(lines)])]

\* json.Unmarshal into ImageSummary on the two documents explored: the empty
\* object decodes to the zero ImageSummary, an unfinished object is a syntax
\* error (the empty sequence)
jsonUnmarshal(text) ==
    IF text = <<"{", "}">> THEN <<[Tags |-> <<>>, Alt |-> <<>>]>> ELSE <<>>

\* the summary response handler of each main: the decoded fields, or the empty
\* sequence when the handler returns an error before building them
summaryHandler(p, text) ==
    IF p = Legacy
    THEN <<[Tags |-> Split(ToLower(text), <<",", " ">>), Alt |-> <<>>]>>
    ELSE IF p = FreeText
    THEN IF Len(Split(text, <<"\n">>)) < 2 THEN <<>> ELSE <<parseSummary(text)>>
    ELSE jsonUnmarshal(text)

(* ------------- the list-driven workflow: main and its requests ---------- *)
\* longest image list explored
MaxImages == 2

\* numbers of tiles MakeImageTiles returns for the images explored
BatchTileCounts == {0, 1, 2}

\* an image of the list: whether it loads and decodes, how many tiles the
\* sweep yields for it, whether png.Encode accepts them
ImageKinds ==
    {[load |-> FALSE, tiles |-> 0, encode |-> TRUE]} \cup
    {k \in [load : {TRUE}, tiles : BatchTileCounts, encode : BOOLEAN] :
        k.tiles = 0 => k.encode}

OneLine == <<"a">>
TwoLines == <<"a", ",", " ", "B", "\n", "c">>

\* the summary responses explored in a batch
Responses(p) ==
    IF p = Structured THEN {<<"{">>, <<"{", "}">>} ELSE {OneLine, TwoLines}

\* the Generate call of a stage for the tile being processed
Req(stage) == [image |-> imgIdx, tile |-> tileIdx, stage |-> stage]

TileIdle ==
    /\ Mode = ModeFit
    /\ Width = 1
    /\ Height = 1
    /\ MaxImagePixels = MaxDim * MaxDim
    /\ srcWidth = 1
    /\ srcHeight = 1
    /\ newWidth = 0
    /\ newHeight = 0
    /\ imgWidth = 0
    /\ imgHeight = 0
    /\ tpc = "idle"
    /\ x = 0
    /\ y = 0
    /\ croppedImages = <<>>
    /\ encoded = 0
    /\ images = <<>>

\* main after flag.Parse (the default -mode), the path checks and os.Open of
\* the list file
BatchInit ==
    /\ TileIdle
    /\ FanIdle
    /\ pass = 1
    /\ firstResult = {}
    /\ program \in Programs
    /\ clientOk \in BOOLEAN
    /\ imageList \in SeqsUpTo(ImageKinds, MaxImages)
    /\ bpc = "scan"
    /\ imgIdx = 0
    /\ tileCount = 0
    /\ tileIdx = 0
    /\ inflight = {}
    /\ requests = {}
    /\ response = <<>>
    /\ received = {}
    /\ pending = <<>>
    /\ err = ""
    /\ artifacts = {}
    /\ loaded = {}
    /\ fatal = ""
    /\ imageListFilePath = "images.txt"
    /\ tagsFilePath = "tags.json"
    /\ mode = ModeFit
    /\ DecodeIdle

\* for scanner.Scan() { imagePath := scanner.Text() ... }
ListScan ==
    /\ bpc = "scan"
    /\ IF imgIdx < Len(imageList)
       THEN /\ imgIdx' = imgIdx + 1
            /\ bpc' = "tiles"
       ELSE /\ imgIdx' = imgIdx
            /\ bpc' = "done"
    /\ UNCHANGED <<program, clientOk, imageList, tileCount, tileIdx,
                   inflight, requests, response, received, pending, err,
                   artifacts, loaded, fatal, tileVars, fanVars, idemVars,
                   cfgVars, decVars>>

\* MakeImageTiles: the image cannot be loaded or decoded; package imagetiler
\* calls log.Fatalf, package internal/imagetiler logs and returns nil
ListLoadFail ==
    /\ bpc = "tiles"
    /\ ~imageList[imgIdx].load
    /\ loaded' = loaded \cup {imgIdx}
    /\ tileCount' = 0
    /\ tileIdx' = 0
    /\ IF program = Legacy
       THEN /\ fatal' = "Error loading image"
            /\ bpc' = "exit"
       ELSE /\ fatal' = fatal
            /\ bpc' = "client"
    /\ UNCHANGED <<program, clientOk, imageList, imgIdx, inflight, requests,
                   response, received, pending, err, artifacts, tileVars,
                   fanVars, idemVars,
                   cfgVars, decVars>>

\* MakeImageTiles returning the tiles that could be encoded, the bad one left out
ListEncodeFail_partial ==
    /\ bpc = "tiles"
    /\ imageList[imgIdx].load
    /\ ~imageList[imgIdx].encode
    /\ loaded' = loaded \cup {imgIdx}
    /\ tileCount' = imageList[imgIdx].tiles - 1
    /\ tileIdx' = 0
    /\ IF program = Legacy
       THEN /\ fatal' = "Error encoding image"
            /\ bpc' = "exit"
       ELSE /\ fatal' = fatal
            /\ bpc' = "client"
    /\ UNCHANGED <<program, clientOk, imageList, imgIdx, inflight, requests,
                   response, received, pending, err, artifacts, tileVars,
                   fanVars, idemVars,
                   cfgVars, decVars>>

\* MakeImageTiles: png.Encode fails for a tile; package imagetiler calls
\* log.Fatalf, package internal/imagetiler logs and returns nil
ListEncodeFail ==
    /\ bpc = "tiles"
    /\ imageList[imgIdx].load
    /\ ~imageList[imgIdx].encode
    /\ loaded' = loaded \cup {imgIdx}
    /\ tileCount' = 0
    /\ tileIdx' = 0
    /\ IF program = Legacy
       THEN /\ fatal' = "Error encoding image"
            /\ bpc' = "exit"
       ELSE /\ fatal' = fatal
            /\ bpc' = "client"
    /\ UNCHANGED <<program, clientOk, imageList, imgIdx, inflight, requests,
                   response, received, pending, err, artifacts, tileVars,
                   fanVars, idemVars,
                   cfgVars, decVars>>

\* MakeImageTiles returns the encoded tiles of the image
ListTilesReturned ==
    /\ bpc = "tiles"
    /\ imageList[imgIdx].load
    /\ imageList[imgIdx].encode
    /\ loaded' = loaded \cup {imgIdx}
    /\ tileCount' = imageList[imgIdx].tiles
    /\ tileIdx' = 0
    /\ bpc' = "client"
    /\ UNCHANGED <<program, clientOk, imageList, imgIdx, inflight, requests,
                   response, received, pending, err, artifacts, fatal,
                   tileVars, fanVars, idemVars,
                   cfgVars, decVars>>

\* generateImageTags / getImageTags: api.ClientFromEnvironment()
ListNewClient ==
    /\ bpc = "client"
    /\ IF clientOk
       THEN /\ bpc' = "loop"
            /\ fatal' = fatal
       ELSE IF program = Legacy
            THEN /\ fatal' = "ClientFromEnvironment"
                 /\ bpc' = "exit"
            ELSE /\ fatal' = fatal
                 /\ bpc' = "scan"
    /\ UNCHANGED <<program, clientOk, imageList, imgIdx, tileCount, tileIdx,
                   inflight, requests, response, received, pending, err,
                   artifacts, loaded, tileVars, fanVars, idemVars,
                   cfgVars, decVars>>

\* for i, imageData := range images { sendVisionRequest(i, ...) }
ListNextTile ==
    /\ bpc = "loop"
    /\ IF tileIdx < tileCount
       THEN /\ tileIdx' = tileIdx + 1
            /\ bpc' = "vision_call"
       ELSE /\ tileIdx' = tileIdx
            /\ bpc' = "scan"
    /\ UNCHANGED <<program, clientOk, imageList, imgIdx, tileCount, inflight,
                   requests, response, received, pending, err, artifacts,
                   loaded, fatal, tileVars, fanVars, idemVars,
                   cfgVars, decVars>>

\* sendVisionRequest: ollamaClient.Generate(ctx, request, responseHandler)
ListVisionSend ==
    /\ bpc = "vision_call"
    /\ inflight' = inflight \cup {Req("vision")}
    /\ requests' = requests \cup {Req("vision")}
    /\ bpc' = "vision_wait"
    /\ UNCHANGED <<program, clientOk, imageList, imgIdx, tileCount, tileIdx,
                   response, received, pending, err, artifacts, loaded,
                   fatal, tileVars, fanVars, idemVars,
                   cfgVars, decVars>>

\* the vision model answers: the handler calls sendSummaryRequest
ListVisionRespond ==
    /\ bpc = "vision_wait"
    /\ bpc' = "summary_call"
    /\ UNCHANGED <<program, clientOk, imageList, imgIdx, tileCount, tileIdx,
                   inflight, requests, response, received, pending, err,
                   artifacts, loaded, fatal, tileVars, fanVars, idemVars,
                   cfgVars, decVars>>

\* the vision request fails in transport: Generate returns the error
ListVisionFail ==
    /\ bpc = "vision_wait"
    /\ err' = "transport"
    /\ bpc' = "vision_ret"
    /\ UNCHANGED <<program, clientOk, imageList, imgIdx, tileCount, tileIdx,
                   inflight, requests, response, received, pending,
                   artifacts, loaded, fatal, tileVars, fanVars, idemVars,
                   cfgVars, decVars>>

\* sendSummaryRequest: ollamaClient.Generate(ctx, request, responseHandler)
ListSummarySend ==
    /\ bpc = "summary_call"
    /\ inflight' = inflight \cup {Req("summary")}
    /\ requests' = requests \cup {Req("summary")}
    /\ bpc' = "summary_wait"
    /\ UNCHANGED <<program, clientOk, imageList, imgIdx, tileCount, tileIdx,
                   response, received, pending, err, artifacts, loaded,
                   fatal, tileVars, fanVars, idemVars,
                   cfgVars, decVars>>

\* the summary model answers: the handler is called with the response
ListSummaryRespond ==
    /\ bpc = "summary_wait"
    /\ \E r \in Responses(program) :
          /\ response' = r
          /\ received' = received \cup
                 {[image |-> imgIdx, tile |-> tileIdx, text |-> r]}
    /\ bpc' = "handler"
    /\ UNCHANGED <<program, clientOk, imageList, imgIdx, tileCount, tileIdx,
                   inflight, requests, pending, err, artifacts, loaded,
                   fatal, tileVars, fanVars, idemVars,
                   cfgVars, decVars>>

\* the summary request fails in transport: Generate returns the error
ListSummaryFail ==
    /\ bpc = "summary_wait"
    /\ err' = "transport"
    /\ bpc' = "summary_ret"
    /\ UNCHANGED <<program, clientOk, imageList, imgIdx, tileCount, tileIdx,
                   inflight, requests, response, received, pending,
                   artifacts, loaded, fatal, tileVars, fanVars, idemVars,
                   cfgVars, decVars>>

\* the summary handler up to json.Marshal: it returns an error for a response
\* it cannot decode, else it builds imageDataWithTags
ListSummaryHandler ==
    /\ bpc = "handler"
    /\ LET d == summaryHandler(program, response)
       IN  IF d = <<>>
           THEN /\ err' = "parse"
                /\ pending' = <<>>
                /\ bpc' = "summary_ret"
           ELSE /\ err' = err
                /\ pending' = <<[image |-> imgIdx, index |-> tileIdx - 1,
                                 Tags |-> d[1].Tags, Alt |-> d[1].Alt]>>
                /\ bpc' = "write"
    /\ UNCHANGED <<program, clientOk, imageList, imgIdx, tileCount, tileIdx,
                   inflight, requests, response, received, artifacts, loaded,
                   fatal, tileVars, fanVars, idemVars,
                   cfgVars, decVars>>

\* os.WriteFile(jsonFileName, jsonData, 0644) succeeds: return nil
ListWriteFile ==
    /\ bpc = "write"
    /\ artifacts' = artifacts \cup {pending[1]}
    /\ pending' = <<>>
    /\ bpc' = "summary_ret"
    /\ UNCHANGED <<program, clientOk, imageList, imgIdx, tileCount, tileIdx,
                   inflight, requests, response, received, err, loaded,
                   fatal, tileVars, fanVars, idemVars,
                   cfgVars, decVars>>

\* os.WriteFile fails: the handler returns the error
ListWriteFileFail ==
    /\ bpc = "write"
    /\ err' = "write"
    /\ pending' = <<>>
    /\ bpc' = "summary_ret"
    /\ UNCHANGED <<program, clientOk, imageList, imgIdx, tileCount, tileIdx,
                   inflight, requests, response, received, artifacts, loaded,
                   fatal, tileVars, fanVars, idemVars,
                   cfgVars, decVars>>

\* sendSummaryRequest after Generate: an error is fatal in main.go (log.Fatalf),
\* logged and returned to the vision handler in the other mains
ListSummaryReturn ==
    /\ bpc = "summary_ret"
    /\ inflight' = inflight \ {Req("summary")}
    /\ response' = <<>>
    /\ IF err # "" /\ program = Legacy
       THEN /\ fatal' = "Error sending generate request to ollama"
            /\ bpc' = "exit"
       ELSE /\ fatal' = fatal
            /\ bpc' = "vision_ret"
    /\ UNCHANGED <<program, clientOk, imageList, imgIdx, tileCount, tileIdx,
                   requests, received, pending, err, artifacts, loaded,
                   tileVars, fanVars, idemVars,
                   cfgVars, decVars>>

\* sendVisionRequest ending the process on an error in every main
ListVisionReturn_alwaysFatal ==
    /\ bpc = "vision_ret"
    /\ inflight' = inflight \ {Req("vision")}
    /\ IF err # ""
       THEN /\ fatal' = "Error sending generate request to ollama"
            /\ bpc' = "exit"
            /\ err' = err
       ELSE /\ fatal' = fatal
            /\ bpc' = "loop"
            /\ err' = ""
    /\ UNCHANGED <<program, clientOk, imageList, imgIdx, tileCount, tileIdx,
                   requests, response, received, pending, artifacts, loaded,
                   tileVars, fanVars, idemVars,
                   cfgVars, decVars>>

\* sendVisionRequest returning while its Generate call is still outstanding
ListVisionReturn_detached ==
    /\ bpc = "vision_ret"
    /\ inflight' = inflight
    /\ IF err # "" /\ program = Legacy
       THEN /\ fatal' = "Error sending generate request to ollama"
            /\ bpc' = "exit"
            /\ err' = err
       ELSE /\ fatal' = fatal
            /\ bpc' = "loop"
            /\ err' = ""
    /\ UNCHANGED <<program, clientOk, imageList, imgIdx, tileCount, tileIdx,
                   requests, response, received, pending, artifacts, loaded,
                   tileVars, fanVars, idemVars,
                   cfgVars, decVars>>

\* sendVisionRequest after Generate, which returns the handler's error: fatal in
\* main.go (log.Fatalf), only logged in the other mains
ListVisionReturn ==
    /\ bpc = "vision_ret"
    /\ inflight' = inflight \ {Req("vision")}
    /\ IF err # "" /\ program = Legacy
       THEN /\ fatal' = "Error sending generate request to ollama"
            /\ bpc' = "exit"
            /\ err' = err
       ELSE /\ fatal' = fatal
            /\ bpc' = "loop"
            /\ err' = ""
    /\ UNCHANGED <<program, clientOk, imageList, imgIdx, tileCount, tileIdx,
                   requests, response, received, pending, artifacts, loaded,
                   tileVars, fanVars, idemVars,
                   cfgVars, decVars>>

BatchNext ==
    \/ ListScan
    \/ ListLoadFail
    \/ ListEncodeFail
    \/ ListTilesReturned
    \/ ListNewClient
    \/ ListNextTile
    \/ ListVisionSend
    \/ ListVisionRespond
    \/ ListVisionFail
    \/ ListSummarySend
    \/ ListSummaryRespond
    \/ ListSummaryFail
    \/ ListSummaryHandler
    \/ ListWriteFile
    \/ ListWriteFileFail
    \/ ListSummaryReturn
    \/ ListVisionReturn

SpecBatch == BatchInit /\ [][BatchNext]_vars

(* ------------- the list-driven workflow: main before the list ----------- *)
ImagesPaths == {"", "images.txt"}
TagsPaths == {"", "tags.json"}

\* values of -mode: the two documented ones and another string
ModeFlags == {ModeFit, ModeTile, "crop"}

\* main after flag.Parse
MainInit ==
    /\ TileIdle
    /\ FanIdle
    /\ pass = 1
    /\ firstResult = {}
    /\ program \in Programs
    /\ clientOk \in BOOLEAN
    /\ imageList \in SeqsUpTo(ImageKinds, MaxImages)
    /\ bpc = "start"
    /\ imgIdx = 0
    /\ tileCount = 0
    /\ tileIdx = 0
    /\ inflight = {}
    /\ requests = {}
    /\ response = <<>>
    /\ received = {}
    /\ pending = <<>>
    /\ err = ""
    /\ artifacts = {}
    /\ loaded = {}
    /\ fatal = ""
    /\ imageListFilePath \in ImagesPaths
    /\ tagsFilePath \in TagsPaths
    /\ mode \in ModeFlags
    /\ DecodeIdle

\* if imageListFilePath == "" { fmt.Println(...); return }
MainCheckImagesPath ==
    /\ bpc = "start"
    /\ IF imageListFilePath = ""
       THEN bpc' = "config_error"
       ELSE bpc' = "check_tags"
    /\ UNCHANGED <<program, clientOk, imageList, imgIdx, tileCount, tileIdx,
                   inflight, requests, response, received, pending, err,
                   artifacts, loaded, fatal, tileVars, fanVars, idemVars,
                   cfgVars, decVars>>

\* if tagsFilePath == "" { fmt.Println(...); return }: part_002 and part_003
\* only, main.go has no such test (readTags logs the failed os.Open and
\* returns "")
MainCheckTagsPath ==
    /\ bpc = "check_tags"
    /\ IF program # Legacy /\ tagsFilePath = ""
       THEN bpc' = "config_error"
       ELSE bpc' = "open"
    /\ UNCHANGED <<program, clientOk, imageList, imgIdx, tileCount, tileIdx,
                   inflight, requests, response, received, pending, err,
                   artifacts, loaded, fatal, tileVars, fanVars, idemVars,
                   cfgVars, decVars>>

\* file, err := os.Open(imageListFilePath) succeeds; the value of -mode goes
\* unexamined into the Options of every MakeImageTiles call
MainOpenList ==
    /\ bpc = "open"
    /\ bpc' = "scan"
    /\ UNCHANGED <<program, clientOk, imageList, imgIdx, tileCount, tileIdx,
                   inflight, requests, response, received, pending, err,
                   artifacts, loaded, fatal, tileVars, fanVars, idemVars,
                   cfgVars, decVars>>

\* os.Open(imageListFilePath) fails: the error is logged and main returns
MainOpenListFail ==
    /\ bpc = "open"
    /\ bpc' = "open_error"
    /\ UNCHANGED <<program, clientOk, imageList, imgIdx, tileCount, tileIdx,
                   inflight, requests, response, received, pending, err,
                   artifacts, loaded, fatal, tileVars, fanVars, idemVars,
                   cfgVars, decVars>>

MainNext ==
    \/ MainCheckImagesPath
    \/ MainCheckTagsPath
    \/ MainOpenList
    \/ MainOpenListFail
    \/ BatchNext

SpecMain == MainInit /\ [][MainNext]_vars

(* ------------- the free-text handler on every short response ------------ *)
\* longest response text explored exhaustively
MaxText == 6

Alphabet == {"a", "B", ",", " ", "\n"}

\* the response of the documented example
DoorWindow ==
    <<"d", "o", "o", "r", ",", " ", "w", "i", "n", "d", "o", "w", "\n",
      "\n", "A", " ", "r", "e", "d", " ", "c", "a", "r", " ", "w", "i",
      "t", "h", " ", "a", "n", " ", "o", "p", "e", "n", " ", "d", "o", "o",
      "r", ".">>

Texts == SeqsUpTo(Alphabet, MaxText) \cup {DoorWindow}

\* part_002 inside the summary handler of the only tile of the only image
ParseInit ==
    /\ TileIdle
    /\ FanIdle
    /\ pass = 1
    /\ firstResult = {}
    /\ program = FreeText
    /\ clientOk = TRUE
    /\ imageList = <<[load |-> TRUE, tiles |-> 1, encode |-> TRUE]>>
    /\ bpc = "handler"
    /\ imgIdx = 1
    /\ tileCount = 1
    /\ tileIdx = 1
    /\ inflight = {Req("vision"), Req("summary")}
    /\ requests = inflight
    /\ response \in Texts
    /\ received = {[image |-> 1, tile |-> 1, text |-> response]}
    /\ pending = <<>>
    /\ err = ""
    /\ artifacts = {}
    /\ loaded = {1}
    /\ fatal = ""
    /\ imageListFilePath = "images.txt"
    /\ tagsFilePath = "tags.json"
    /\ mode = ModeFit
    /\ DecodeIdle

ParseNext ==
    \/ ListSummaryHandler
    \/ ListWriteFile
    \/ ListWriteFileFail
    \/ ListSummaryReturn

SpecParse == ParseInit /\ [][ParseNext]_vars

(* ------------------------ claims: tile planner -------------------------- *)
\* C1: for every loaded source (width, height >= 1) and every tile size
\* (width, height >= 1), in Fit and in Tile mode, cropImage returns at least
\* one tile, so that images[0] in main is valid.
\* (stated as claimed; the sweep of a wide and short, or tall and narrow,
\* source returns no tile)
C1_TileSetNeverEmpty ==
    (tpc = "encode" /\ Width >= 1 /\ Height >= 1) => Len(croppedImages) >= 1

\* a rectangle lies fully inside a source of size w x h
InsideSource(r, w, h) ==
    /\ r.x >= 0 /\ r.y >= 0
    /\ r.w >= 1 /\ r.h >= 1
    /\ r.x + r.w <= w
    /\ r.y + r.h <= h

MaxPayload == 3

\* decoders registered with package image by the imports image/jpeg, image/png
Stdlib == {"png", "jpeg"}

\* decoders of the imported packages chai2010/webp, gen2brain/avif and
\* x/image/tiff; whether their init registers them with package image is the
\* packages' business
ThirdParty == {"webp", "avif", "tiff"}

\* what the bytes are: an image of a known format or something else
PayloadFormats == Stdlib \cup ThirdParty \cup {"text"}

\* decoder d, reading from position from, decodes the payload: it needs all
\* the bytes of an intact image of a format it knows
Decodes(d, from) ==
    /\ from = 0
    /\ payload.size >= 1
    /\ payload.intact
    /\ IF d = "generic" THEN payload.format \in registered
                        ELSE payload.format = d

\* positions of the reader after a failed attempt: a decoder reads at least
\* one byte, if one is left, before it gives up (image.Decode peeks at the
\* magic bytes through a bufio.Reader of its own, that fills its buffer from
\* the reader)
Consumed(from) ==
    IF from = payload.size THEN {from} ELSE (from + 1)..payload.size

\* the format string decodeImage returns with the image of decoder d
formatOf(d) == IF d = "generic" THEN payload.format ELSE d

\* decodeImage is called with a freshly opened file or response body
DecodeInit ==
    /\ TileIdle
    /\ FanIdle
    /\ ListIdle
    /\ payload \in [format : PayloadFormats, size : 0..MaxPayload,
                    intact : BOOLEAN]
    /\ registered \in {Stdlib \cup T : T \in SUBSET ThirdParty}
    /\ reader = 0
    /\ dpc = "generic"
    /\ attempts = <<>>
    /\ format = ""

\* img, format, err := image.Decode(reader); if err == nil { return }
DecodeGeneric ==
    /\ dpc = "generic"
    /\ attempts' = Append(attempts, [decoder |-> "generic", from |-> reader])
    /\ IF Decodes("generic", reader)
       THEN /\ reader' = payload.size
            /\ format' = formatOf("generic")
            /\ dpc' = "returned"
       ELSE /\ reader' \in Consumed(reader)
            /\ format' = ""
            /\ dpc' = "jpeg"
    /\ UNCHANGED <<payload, registered, tileVars, fanVars, idemVars,
                   batchVars, cfgVars>>

\* img, err = jpeg.Decode(reader) on the same reader
DecodeJpeg ==
    /\ dpc = "jpeg"
    /\ attempts' = Append(attempts, [decoder |-> "jpeg", from |-> reader])
    /\ IF Decodes("jpeg", reader)
       THEN /\ reader' = payload.size
            /\ format' = formatOf("jpeg")
            /\ dpc' = "returned"
       ELSE /\ reader' \in Consumed(reader)
            /\ format' = ""
            /\ dpc' = "webp"
    /\ UNCHANGED <<payload, registered, tileVars, fanVars, idemVars,
                   batchVars, cfgVars>>

\* img, err = webp.Decode(reader) on the same reader
DecodeWebp ==
    /\ dpc = "webp"
    /\ attempts' = Append(attempts, [decoder |-> "webp", from |-> reader])
    /\ IF Decodes("webp", reader)
       THEN /\ reader' = payload.size
            /\ format' = formatOf("webp")
            /\ dpc' = "returned"
       ELSE /\ reader' \in Consumed(reader)
            /\ format' = ""
            /\ dpc' = "avif"
    /\ UNCHANGED <<payload, registered, tileVars, fanVars, idemVars,
                   batchVars, cfgVars>>

\* img, err = avif.Decode(reader) on the same reader
DecodeAvif ==
    /\ dpc = "avif"
    /\ attempts' = Append(attempts, [decoder |-> "avif", from |-> reader])
    /\ IF Decodes("avif", reader)
       THEN /\ reader' = payload.size
            /\ format' = formatOf("avif")
            /\ dpc' = "returned"
       ELSE /\ reader' \in Consumed(reader)
            /\ format' = ""
            /\ dpc' = "tiff"
    /\ UNCHANGED <<payload, registered, tileVars, fanVars, idemVars,
                   batchVars, cfgVars>>

\* img, err = tiff.Decode(reader) on the same reader
DecodeTiff ==
    /\ dpc = "tiff"
    /\ attempts' = Append(attempts, [decoder |-> "tiff", from |-> reader])
    /\ IF Decodes("tiff", reader)
       THEN /\ reader' = payload.size
            /\ format' = formatOf("tiff")
            /\ dpc' = "returned"
       ELSE /\ reader' \in Consumed(reader)
            /\ format' = ""
            /\ dpc' = "unsupported"
    /\ UNCHANGED <<payload, registered, tileVars, fanVars, idemVars,
                   batchVars, cfgVars>>

\* return nil, "", fmt.Errorf("unsupported image format or corrupted image")
DecodeUnsupported ==
    /\ dpc = "unsupported"
    /\ dpc' = "error"
    /\ UNCHANGED <<payload, registered, reader, attempts, format, tileVars,
                   fanVars, idemVars, batchVars, cfgVars>>

DecodeNext ==
    \/ DecodeGeneric
    \/ DecodeJpeg
    \/ DecodeWebp
    \/ DecodeAvif
    \/ DecodeTiff
    \/ DecodeUnsupported

SpecDecode == DecodeInit /\ [][DecodeNext]_vars

(* ------------------------- claims: fan-out ------------------------------ *)
\* wg.Wait() of generateImageTags has returned
BarrierReleased == mpc \in {"tags_close", "collect", "write", "exit"}

\* generateImageTags has returned its slice
TagsReturned == mpc \in {"write", "exit"}

\* the goroutine of tile i has nothing left to do but return
TaskFinished(i) ==
    \/ tagTask[i].pc = "end"
    \/ tagTask[i].pc = "generet" /\ tagTask[i].outcome = "ok"

\* the observations of the tiles whose response parsed
OkObservations ==
    UNION {{tagTask[i].Tags[k] : k \in 1..Len(tagTask[i].Tags)} :
              i \in {j \in 1..NTiles : tagTask[j].outcome = "ok"}}

\* the reduction of a set of observations, stated directly: per name the
\* observation of highest confidence, if that confidence reaches t
Reduction(obs, t) ==
    {o \in obs : /\ o.Confidence >= t
                 /\ \A o2 \in obs : o2.Object = o.Object
                                        => o2.Confidence <= o.Confidence}

ResultSet == {uniqueTags[k] : k \in 1..Len(uniqueTags)}

\* C3: the results channel is closed and collectUniqueTags starts only after
\* every tile task has finished; no task is still running after wg.Wait()
\* has returned. (stated as claimed)
C3_AllTasksDoneBeforeReduction ==
    BarrierReleased => \A i \in 1..NTiles : TaskFinished(i)

\* C4: a tile whose tag response does not parse is skipped: the process does
\* not panic and generateImageTags returns the reduction of the observations
\* of the other tiles. (stated as claimed)
C4_ParseFailureSkipsTile ==
    (/\ summaryTask.outcome # "malformed"
     /\ \E i \in 1..NTiles : /\ tagTask[i].outcome = "malformed"
                             /\ tagTask[i].pc \in {"defer", "generet", "end"})
        => /\ panicked = ""
           /\ TagsReturned => /\ \A i \in 1..NTiles : TaskFinished(i)
                              /\ ResultSet = Reduction(OkObservations, threshold)

\* C5: if the summary call fails at transport level, no tag call is
\* dispatched for the image and no artifact is written. (stated as claimed)
C5_SummaryTransportFailureFatal ==
    summaryTask.outcome = "transport" => (Launched = {} /\ artifact = <<>>)

\* no response, of the summary stage or of a tile, has failed to parse
NoParseFailure ==
    /\ summaryTask.outcome # "malformed"
    /\ \A i \in 1..NTiles : tagTask[i].outcome # "malformed"

\* C6: when tile calls fail at transport level and the others deliver their
\* observations, generateImageTags is not held back (no panic, the barrier
\* opens once every task has ended) and what it returns is the reduction of
\* exactly the observations delivered by the tiles that did not fail.
C6_TransportFailureExcludesTile ==
    NoParseFailure
        => /\ panicked = ""
           /\ (Cardinality(Launched) = NTiles
               /\ \A i \in 1..NTiles : tagTask[i].pc = "end") => wg = 0
           /\ BarrierReleased => \A i \in 1..NTiles : TaskFinished(i)
           /\ TagsReturned
                => /\ \A i \in 1..NTiles :
                        tagTask[i].outcome = "ok" <=> tagTask[i].sent
                   /\ ResultSet = Reduction(OkObservations, threshold)

\* C6 witness: generateImageTags returned a non-empty result although one of
\* its two tile calls failed at transport level
C6_Witness ==
    /\ TagsReturned
    /\ NTiles = 2
    /\ \E i, j \in 1..NTiles : /\ tagTask[i].outcome = "transport"
                               /\ tagTask[j].outcome = "ok"
                               /\ tagTask[j].sent
    /\ uniqueTags # <<>>

\* C7: no tag request is dispatched before the summary call has completed,
\* and the subject of every tag prompt is the one generateImageSummary
\* returned, which is the subject of the summary response when one was
\* delivered.
C7_SummaryBeforeTags ==
    \A i \in 1..NTiles :
        tagTask[i].pc # "idle"
            => /\ summaryTask.pc \in {"generet", "end"}
               /\ mpc \notin {"summary_go", "summary_wait", "summary_close",
                              "summary_recv"}
               /\ tagTask[i].Subject = summary.Subject
               /\ summaryTask.sent => tagTask[i].Subject = summaryTask.Subject

\* C7 witness: a tag request is in flight, its prompt carrying the subject of
\* the delivered summary response
C7_Witness ==
    /\ summaryTask.sent
    /\ summaryTask.Subject = "boat"
    /\ \E i \in 1..NTiles : tagTask[i].pc = "call" /\ tagTask[i].Subject = "boat"

(* ------------------------- claims: reducer ------------------------------ *)
\* the observations that were delivered to the channel
SentObservations ==
    UNION {{tagTask[i].Tags[k] : k \in 1..Len(tagTask[i].Tags)} :
              i \in {j \in 1..NTiles : tagTask[j].sent}}

Collected == mpc \in {"write", "exit"}

\* C8: for every tag name with an observation of confidence >= threshold, the
\* reduced output's confidence for that name is the maximum confidence over
\* all observations of that name.
C8_ReducerKeepsMaximum ==
    Collected =>
        \A n \in TagNames :
            (\E o \in SentObservations : o.Object = n /\ o.Confidence >= threshold)
                => /\ \E k \in 1..Len(uniqueTags) : uniqueTags[k].Object = n
                   /\ \A k \in 1..Len(uniqueTags) :
                        uniqueTags[k].Object = n
                            => /\ \E o \in SentObservations :
                                    o.Object = n /\ o.Confidence = uniqueTags[k].Confidence
                               /\ \A o \in SentObservations :
                                    o.Object = n => o.Confidence <= uniqueTags[k].Confidence

\* C8 witness: a name was observed twice at or above the threshold, the
\* higher confidence arriving first, and the output holds the higher one
C8_Witness ==
    /\ Collected
    /\ \E i \in 1..NTiles : \E j, k \in 1..Len(tagTask[i].Tags) :
          /\ j < k
          /\ tagTask[i].Tags[j].Object = tagTask[i].Tags[k].Object
          /\ tagTask[i].Tags[j].Confidence > tagTask[i].Tags[k].Confidence
          /\ tagTask[i].Tags[k].Confidence >= threshold
          /\ \E u \in 1..Len(uniqueTags) : uniqueTags[u] = tagTask[i].Tags[j]

C10_Uniqueness ==
    /\ \A e1, e2 \in tagMap : e1.Object = e2.Object => e1 = e2
    /\ \A j, k \in 1..Len(uniqueTags) :
          j # k => uniqueTags[j].Object # uniqueTags[k].Object

\* C10 witness: both names are in the returned list and one of them was
\* observed twice at or above the threshold
C10_Witness ==
    /\ Collected
    /\ Len(uniqueTags) = 2
    /\ \E i, j \in 1..NTiles : \E a \in 1..Len(tagTask[i].Tags) :
          \E b \in 1..Len(tagTask[j].Tags) :
              /\ <<i, a>> # <<j, b>>
              /\ tagTask[i].Tags[a].Object = tagTask[j].Tags[b].Object
              /\ tagTask[i].Tags[a].Confidence >= threshold
              /\ tagTask[j].Tags[b].Confidence >= threshold

\* C11: reduction is idempotent: feeding the reduced list back into the
\* reducer, confidences preserved and with the same threshold, yields the same
\* name-to-confidence mapping as the first reduction.
C11_ReductionIdempotent ==
    (pass = 2 /\ Collected) =>
        {uniqueTags[k] : k \in 1..Len(uniqueTags)} = firstResult

\* C11 witness: the first reduction dropped an observation and kept another,
\* and its result has been reduced a second time
C11_Witness ==
    /\ pass = 2
    /\ Collected
    /\ firstResult # {}
    /\ firstResult # SentObservations
    /\ Len(uniqueTags) = 2

\* the image was loaded and resizeImage has returned
Resized ==
    \/ tpc \in {"crop", "outer", "inner", "encode"}
    \/ tpc \in {"returned", "summary", "panic"}
          /\ (croppedImages # <<>> \/ imgWidth > 0)

\* cropImage has returned its list of rectangles
CropReturned == Resized /\ tpc \notin {"crop", "outer", "inner"}

WholeImage == [x |-> 0, y |-> 0, w |-> imgWidth, h |-> imgHeight]

\* C12: whenever the (possibly resized) source satisfies W <= tile width and
\* H <= tile height, the sweep returns exactly one tile, the whole image
\* (origin (0,0), size W x H).
C12_SmallSourceOneTile ==
    (CropReturned /\ imgWidth <= Width /\ imgHeight <= Height)
        => croppedImages = <<WholeImage>>

\* C12 witness: a resized source exactly as wide as the tile was returned as
\* one whole-image tile
C12_Witness ==
    /\ tpc = "returned"
    /\ Mode = ModeTile
    /\ imgWidth = Width
    /\ imgHeight <= Height
    /\ imgWidth < srcWidth
    /\ images = <<WholeImage>>
    /\ imgHeight >= 1

\* w x h has the aspect ratio of sw x sh up to one pixel of rounding
AspectKept(sw, sh, w, h) ==
    LET d == w * sh - h * sw
    IN  (IF d < 0 THEN -d ELSE d) < Max(sw, sh)

\* C13: in Fit mode, for every source size and every positive target
\* width x height, exactly one tile is produced, its width <= target width
\* and its height <= target height, with the source's aspect ratio; when
\* every tile is encoded that one tile is what MakeImageTiles returns.
C13_FitOneOutput ==
    (CropReturned /\ Mode = ModeFit /\ Width >= 1 /\ Height >= 1)
        => /\ croppedImages = <<WholeImage>>
           /\ 1 <= imgWidth /\ imgWidth <= Width
           /\ 1 <= imgHeight /\ imgHeight <= Height
           /\ AspectKept(srcWidth, srcHeight, imgWidth, imgHeight)
           /\ (tpc \in {"returned", "summary"} /\ encoded = 1)
                  => images = <<WholeImage>>

\* C13 witness: a square source twice the target is returned as one tile of
\* the target size (1344x1344 with target 672x672 at model scale)
C13_Witness ==
    /\ tpc = "returned"
    /\ Mode = ModeFit
    /\ Width = 2 /\ Height = 2
    /\ srcWidth = 4 /\ srcHeight = 4
    /\ images = <<[x |-> 0, y |-> 0, w |-> 2, h |-> 2]>>

\* C14: in Tile mode, for every source with W*H > MaxImagePixels
\* (MaxImagePixels >= 1), the resize target (newWidth, newHeight) computed by
\* resizeImage satisfies newWidth * newHeight <= MaxImagePixels.
C14_PixelBudgetRespected ==
    (Resized /\ Mode = ModeTile /\ MaxImagePixels >= 1
             /\ srcWidth * srcHeight > MaxImagePixels)
        => newWidth * newHeight <= MaxImagePixels

\* C14 witness: a source over the budget got a non-empty target smaller than
\* the source and was tiled
C14_Witness ==
    /\ tpc = "returned"
    /\ Mode = ModeTile
    /\ srcWidth * srcHeight > MaxImagePixels
    /\ newWidth >= 2 /\ newHeight >= 2
    /\ newWidth < srcWidth
    /\ Len(images) >= 1

\* C15: in Tile mode, whenever W*H <= MaxImagePixels (equality included),
\* resizeImage leaves the image and its dimensions unchanged and the sweep
\* runs on the original W x H.
C15_NoResizeWithinBudget ==
    (Resized /\ Mode = ModeTile /\ srcWidth * srcHeight <= MaxImagePixels)
        => /\ imgWidth = srcWidth
           /\ imgHeight = srcHeight
           /\ newWidth = 0 /\ newHeight = 0

\* C15 witness: a source exactly at the budget, twice as wide as high, was
\* swept at its original size (2000x1000 with a budget of 2,000,000 and
\* 672x672 tiles at model scale)
C15_Witness ==
    /\ tpc = "returned"
    /\ Mode = ModeTile
    /\ srcWidth = MaxDim /\ srcHeight = 3
    /\ MaxImagePixels = srcWidth * srcHeight
    /\ Width = 2 /\ Height = 2
    /\ imgWidth = srcWidth
    /\ Len(images) = 2 * (MaxDim - 1)

\* the multiples of the step below limit - step (the step is the floor of
\* half the tile side; a zero step has the single multiple 0)
SweepCoords(limit, tile) ==
    {c \in 0..limit : /\ c < limit - (tile \div 2)
                      /\ IF tile \div 2 = 0 THEN c = 0 ELSE c % (tile \div 2) = 0}

\* the origins (x, y) over SweepCoords in row-major order
SweepOrigins(w, h, tw, th) ==
    LET xs == SweepCoords(w, tw)
        ys == SweepCoords(h, th)
        nx == Cardinality(xs)
    IN  [k \in 1..(nx * Cardinality(ys)) |->
            <<Nth(xs, ((k - 1) % nx) + 1), Nth(ys, ((k - 1) \div nx) + 1)>>]

\* C16: when the source exceeds the tile size on some axis, the sequence of
\* tile origins returned by cropImage is exactly, in row-major order, the
\* pairs (x, y) with y a multiple of sy below H - sy and x a multiple of sx
\* below W - sx, where sx = floor(tile width / 2), sy = floor(tile height / 2).
C16_SweepOrigins ==
    (CropReturned /\ (imgWidth > Width \/ imgHeight > Height))
        => [k \in 1..Len(croppedImages) |->
               <<croppedImages[k].x, croppedImages[k].y>>]
             = SweepOrigins(imgWidth, imgHeight, Width, Height)

\* C16 witness: a source twice as wide as high swept with 2x2 tiles in two
\* rows of MaxDim - 1 columns (2000x1000 with 672x672 tiles: 5 columns by 2
\* rows), the second row starting after the last column of the first
C16_Witness ==
    /\ tpc = "returned"
    /\ imgWidth = MaxDim /\ imgHeight = 3
    /\ Width = 2 /\ Height = 2
    /\ Len(images) = 2 * (MaxDim - 1)
    /\ images[MaxDim - 1].x = MaxDim - 2 /\ images[MaxDim - 1].y = 0
    /\ images[MaxDim].x = 0 /\ images[MaxDim].y = 1

\* C17: every rectangle the sweep generates at origin (x, y) keeps that
\* origin and has width min(tile width, W - x) and height
\* min(tile height, H - y): it is shortened at the edge, never shifted back
\* and never padded.
C17_ClipAtEdge ==
    [][(tpc = "inner" /\ Len(croppedImages') = Len(croppedImages) + 1)
          => croppedImages'[Len(croppedImages')]
               = [x |-> x, y |-> y,
                  w |-> Min(Width, imgWidth - x),
                  h |-> Min(Height, imgHeight - y)]]_vars

\* C17 witness: the last rectangle of a finished sweep was shortened on both
\* axes and kept its origin on the half-step grid
C17_Witness ==
    /\ tpc = "returned"
    /\ imgWidth > Width
    /\ Width = 3 /\ Height = 3
    /\ Len(images) >= 2
    /\ LET r == images[Len(images)]
       IN  /\ r.w < Width /\ r.h < Height
           /\ r.x + r.w = imgWidth /\ r.y + r.h = imgHeight

(* ------------------------ claims: list-driven workflow ------------------ *)
\* the text before the first occurrence of sep, scanning from the left
RECURSIVE Before(_, _)
Before(t, sep) ==
    IF Len(t) < Len(sep) THEN t
    ELSE IF SubSeq(t, 1, Len(sep)) = sep THEN <<>>
    ELSE <<Head(t)>> \o Before(Tail(t), sep)

\* the pieces of t between the occurrences of sep, scanning from the left
RECURSIVE Pieces(_, _)
Pieces(t, sep) ==
    LET first == Before(t, sep)
    IN  IF Len(first) = Len(t) THEN <<t>>
        ELSE <<first>> \o Pieces(SubSeq(t, Len(first) + Len(sep) + 1, Len(t)), sep)

\* t without leading white space, without trailing white space
RECURSIVE StripLeft(_)
StripLeft(t) ==
    IF Len(t) > 0 /\ Head(t) \in WhiteSpace THEN StripLeft(Tail(t)) ELSE t

RECURSIVE StripRight(_)
StripRight(t) ==
    IF Len(t) > 0 /\ t[Len(t)] \in WhiteSpace
    THEN StripRight(SubSeq(t, 1, Len(t) - 1))
    ELSE t

Trimmed(t) == StripRight(StripLeft(t))

NumLines(t) == Len(Pieces(t, <<"\n">>))

FirstLine(t) == Pieces(t, <<"\n">>)[1]

LastLine(t) == Pieces(t, <<"\n">>)[NumLines(t)]

\* the pieces of l between the occurrences of ", ", each trimmed
TrimmedPieces(l) ==
    LET ps == Pieces(l, <<",", " ">>)
    IN  [k \in 1..Len(ps) |-> Trimmed(ps[k])]

\* C18: for every summary response with at least two lines (split on
\* newline), part_002's handler does not fail to parse it, the tags are the
\* first line lower-cased, split on ", " and each trimmed, and the caption is
\* the last line trimmed, whatever lines lie between.
C18_FreeTextParsing ==
    /\ (bpc = "write" /\ NumLines(response) >= 2)
          => /\ Len(pending) = 1
             /\ pending[1].Tags = TrimmedPieces(ToLower(FirstLine(response)))
             /\ pending[1].Alt = Trimmed(LastLine(response))
    /\ (bpc = "summary_ret" /\ NumLines(response) >= 2) => err # "parse"
    /\ \A a \in artifacts : \E rc \in received :
          /\ rc.image = a.image /\ rc.tile = a.index + 1
          /\ NumLines(rc.text) >= 2
          /\ a.Tags = TrimmedPieces(ToLower(FirstLine(rc.text)))
          /\ a.Alt = Trimmed(LastLine(rc.text))

\* C18 witness: the documented example was parsed and written as the tags
\* "door", "window" and the caption "A red car with an open door."
C18_Witness ==
    /\ bpc = "summary_ret"
    /\ response = DoorWindow
    /\ \E a \in artifacts :
          /\ a.Tags = <<<<"d", "o", "o", "r">>, <<"w", "i", "n", "d", "o", "w">>>>
          /\ a.Alt = SubSeq(DoorWindow, 15, Len(DoorWindow))
          /\ Len(a.Alt) = 28

\* the summary responses without a newline (fewer than two lines) handed to
\* the handler so far
TooFewLines == {rc \in received : Occurrences(rc.text, <<"\n">>) = {}}

\* every image of the list went through MakeImageTiles and, the client being
\* available, every tile returned for an image was sent to the vision model
BatchProcessed ==
    /\ loaded = 1..Len(imageList)
    /\ clientOk =>
          \A k \in 1..Len(imageList) :
              (imageList[k].load /\ imageList[k].encode) =>
                  \A i \in 1..imageList[k].tiles :
                      [image |-> k, tile |-> i, stage |-> "vision"] \in requests

\* C19: in part_002 a summary response with fewer than two lines is a parse
\* failure for that tile only: no tags, no caption and no artifact are
\* produced for that tile, the process does not abort, and the remaining
\* tiles and images of the batch are still processed (when the end of the
\* list is reached every image was tiled and every tile was sent).
C19_TooFewLinesSkipsTile ==
    program = FreeText =>
        /\ \A rc \in TooFewLines :
              /\ \A a \in artifacts :
                    ~(a.image = rc.image /\ a.index = rc.tile - 1)
              /\ (bpc = "write" /\ imgIdx = rc.image /\ tileIdx = rc.tile)
                    => pending = <<>>
        /\ bpc # "exit"
        /\ fatal = ""
        /\ bpc = "done" => BatchProcessed

\* C19 witness: the first tile of the first image got a one-line response and
\* no artifact; the second tile and the next image got their artifacts
C19_Witness ==
    /\ program = FreeText
    /\ bpc = "done"
    /\ Len(imageList) = MaxImages
    /\ [image |-> 1, tile |-> 1, text |-> OneLine] \in received
    /\ \A a \in artifacts : ~(a.image = 1 /\ a.index = 0)
    /\ \E a \in artifacts : a.image = 1 /\ a.index = 1
    /\ \E a \in artifacts : a.image = MaxImages

\* C20: when an image of the list cannot be loaded, no inference request is
\* sent for it, the process does not exit, and every later image of the list
\* is still processed.
\* (stated as claimed; MakeImageTiles of package imagetiler ends the process
\* with log.Fatalf)
C20_LoadFailureSkipsImage ==
    /\ \A rq \in requests : imageList[rq.image].load
    /\ fatal # "Error loading image"
    /\ bpc = "done" => loaded = 1..Len(imageList)

\* the images of the list whose tiles png.Encode refuses
Unencodable == {k \in 1..Len(imageList) : imageList[k].load /\ ~imageList[k].encode}

\* C21: with package internal/imagetiler, if encoding fails for a tile of an
\* image, MakeImageTiles returns no tiles at all for that image (never a
\* partial list), no inference request is sent for that image, the process
\* does not exit, and the batch moves on to the next image.
C21_BadTileAbortsImage ==
    program # Legacy =>
        /\ \A k \in Unencodable :
              /\ \A rq \in requests : rq.image # k
              /\ (imgIdx = k /\ k \in loaded) => tileCount = 0
        /\ fatal # "Error encoding image"
        /\ bpc = "done" => loaded = 1..Len(imageList)

\* C21 witness: the first image had two tiles and an encoding failure, no
\* request was sent for it, and the last image of the list got its artifact
C21_Witness ==
    /\ program = Structured
    /\ bpc = "done"
    /\ Len(imageList) = MaxImages
    /\ imageList[1] = [load |-> TRUE, tiles |-> 2, encode |-> FALSE]
    /\ \A rq \in requests : rq.image # 1
    /\ \E a \in artifacts : a.image = MaxImages

\* the command line has a configuration error
ConfigError ==
    \/ imageListFilePath = ""
    \/ tagsFilePath = ""
    \/ mode \notin {ModeFit, ModeTile}

\* C22: if a required path is missing or the mode string is neither "fit" nor
\* "tile", the error is reported and the process exits without loading any
\* image and without sending any inference request.
\* (stated as claimed; no main examines the mode string, and main.go does not
\* examine the tags path)
C22_ConfigErrorStopsRun ==
    ConfigError =>
        /\ bpc \in {"start", "check_tags", "config_error"}
        /\ loaded = {}
        /\ requests = {}

\* C23: if the configured tile/target width or height (or the pixel budget) is
\* <= 0, the run reports a configuration error and neither resizeImage nor the
\* cropImage sweep is ever entered with such a value.
\* (stated as claimed; MakeImageTiles loads the image and calls resizeImage and
\* cropImage whatever the Options hold)
C23_NonPositiveRejected ==
    tpc \in {"resize", "crop", "outer", "inner", "encode"} =>
        /\ Width >= 1
        /\ Height >= 1
        /\ MaxImagePixels >= 1

\* C24: in the list-driven workflow every request (vision stage and summary
\* stage of every tile) and every artifact write of image k completes before
\* the first load or request of image k+1 begins; at no time are requests of
\* two different images in flight.
C24_StrictlySequential ==
    [][/\ \A rq \in inflight' : rq.image = imgIdx'
       /\ \A rq \in requests' \ requests : rq.image = imgIdx /\ imgIdx' = imgIdx
       /\ \A a \in artifacts' \ artifacts : a.image = imgIdx /\ imgIdx' = imgIdx
       /\ (loaded' # loaded \/ imgIdx' # imgIdx) =>
             /\ inflight = {}
             /\ pending = <<>>
             /\ loaded' \ loaded \subseteq {imgIdx}
             /\ \A rq \in requests : rq.image < imgIdx'
             /\ \A a \in artifacts : a.image < imgIdx']_vars

\* the last image of the list has both stages in flight after the first image
\* was answered and written
C24_Witness ==
    /\ imgIdx = MaxImages
    /\ bpc = "summary_wait"
    /\ inflight = {Req("vision"), Req("summary")}
    /\ \E a \in artifacts : a.image = 1
    /\ \E rq \in requests : rq.image = 1 /\ rq.stage = "summary"

\* C25: for the summary task and for every per-tile tag task, on every outcome
\* (response delivered, parse failure returned by the handler, transport
\* failure) wg.Done is called exactly once, so the WaitGroup counter is never
\* negative and reaches zero only when all tasks have ended.
\* (stated as claimed; on a parse failure the handler's deferred wg.Done() is
\* followed by the wg.Done() after Generate)
C25_DoneExactlyOnce ==
    /\ summaryTask.dones <= 1
    /\ summaryTask.pc = "end" => summaryTask.dones = 1
    /\ \A i \in 1..MaxTiles :
          /\ tagTask[i].dones <= 1
          /\ tagTask[i].pc = "end" => tagTask[i].dones = 1
    /\ summaryWg >= 0
    /\ wg >= 0

\* C26: assuming every inference call ends in exactly one outcome (one
\* response, or a transport error), generateImageSummary and generateImageTags
\* eventually return for every number of tiles and every interleaving, and the
\* occupancy of each results channel never exceeds its capacity.
\* (stated as claimed; a response that the handler cannot parse ends the task
\* with two wg.Done() calls and the process panics before the return)
C26_FanInAlwaysFinishes ==
    /\ [](Len(summaries) <= 1 /\ Len(results) <= NTiles)
    /\ <>(mpc \in {"write", "exit"})

\* C27: for every multiset of per-tile tag observations, every order in which
\* the tile tasks deliver them to the channel (and every order of tags inside a
\* response) makes collectUniqueTags return the same name-to-confidence
\* mapping.
C27_ArrivalOrderIrrelevant ==
    (pass = 2 /\ mpc = "write") =>
        {uniqueTags[k] : k \in 1..Len(uniqueTags)} = firstResult

\* both passes are done for two tiles with different responses, and a name
\* seen with two confidences above the threshold is in the result
C27_Witness ==
    /\ pass = 2
    /\ mpc = "write"
    /\ NTiles = 2
    /\ tagTask[1].Tags # tagTask[2].Tags
    /\ \E e \in firstResult :
          \E k \in 1..Len(tagTask[1].Tags) :
             /\ tagTask[1].Tags[k].Object = e.Object
             /\ tagTask[1].Tags[k].Confidence >= threshold
             /\ tagTask[1].Tags[k].Confidence < e.Confidence
    /\ Cardinality(firstResult) = 2

\* the pixel (px, py) lies inside the rectangle r
Covers(r, px, py) ==
    /\ r.x <= px /\ px < r.x + r.w
    /\ r.y <= py /\ py < r.y + r.h

\* C28: whenever cropImage returns at least one tile, every pixel (px, py)
\* with 0 <= px < W and 0 <= py < H of the (resized) source lies inside at
\* least one returned rectangle; no strip at the right or bottom edge is left
\* out.
C28_TilesCoverImage ==
    (CropReturned /\ Len(croppedImages) >= 1) =>
        \A px \in 0..(imgWidth - 1) : \A py \in 0..(imgHeight - 1) :
           \E k \in 1..Len(croppedImages) : Covers(croppedImages[k], px, py)

\* C28 witness: a finished half-step sweep over a source larger than the tile
\* on both axes; the first pixel lies in one rectangle only, the last pixel in
\* several overlapping ones, one of them shortened at both edges
C28_Witness ==
    /\ tpc = "returned"
    /\ imgWidth > Width /\ imgHeight > Height
    /\ Cardinality({k \in 1..Len(images) : Covers(images[k], 0, 0)}) = 1
    /\ Cardinality({k \in 1..Len(images) :
                       Covers(images[k], imgWidth - 1, imgHeight - 1)}) >= 2
    /\ \E k \in 1..Len(images) :
          /\ Covers(images[k], imgWidth - 1, imgHeight - 1)
          /\ images[k].w < Width /\ images[k].h < Height

\* C29: for every source size W >= 1, H >= 1 and every tile size with width
\* >= 1 and height >= 1 (including tile width or height 1, where the half step
\* floors to 0), the nested loops of cropImage finish after finitely many
\* iterations and return a finite list of tiles.
\* (stated as claimed; with a half step of 0 the loop variable never advances)
C29_SweepTerminates ==
    (tpc = "crop" /\ Width >= 1 /\ Height >= 1 /\ imgWidth >= 1 /\ imgHeight >= 1)
        ~> (tpc \notin {"crop", "outer", "inner"})

\* the order in which decodeImage calls the decoders
ProbingOrder == <<"generic", "jpeg", "webp", "avif", "tiff">>

\* C30: decodeImage tries the generic decoder first, then jpeg, webp, avif,
\* tiff in that order and returns the first success; a failed attempt leaves
\* the reader's position unchanged, so each fallback decoder reads the payload
\* from its first byte, and the unsupported-format error is returned only when
\* every decoder fails on the complete payload.
\* (stated as claimed; every decoder is handed the one reader, which the
\* attempts before it have advanced)
C30_ProbingIntactPayload ==
    /\ \A k \in 1..Len(attempts) :
          /\ attempts[k].decoder = ProbingOrder[k]
          /\ attempts[k].from = 0
    /\ dpc = "returned" => Decodes(attempts[Len(attempts)].decoder, 0)
    /\ dpc = "error" =>
          \A k \in 1..Len(ProbingOrder) : ~Decodes(ProbingOrder[k], 0)

====
